---- MODULE Spec2Model ----
(***************************************************************************)
(* Model of the persistence core of yt-summarizer                          *)
(* (src/app/models/video.py): the bounded, recency-ordered VideoStore      *)
(* with its identifier index and in-memory transcript cache.               *)
(*                                                                         *)
(* Python lists are modelled as TLA+ sequences (1-based); the positions    *)
(* stored in _index are kept 0-based as in the source, so the record at    *)
(* Python position p is videos[p + 1].  A Python dict is a function whose  *)
(* DOMAIN is the set of its keys.  Python None is the string "None".       *)
(***************************************************************************)
EXTENDS Integers, Sequences, FiniteSets, TLC

\* ------------------------------------------------------------------ bounds
\* Number of distinct video ids the callers use: ids are 1..NumIds.
NumIds == 4
\* VideoStore.MAX_VIDEOS is 50 in the source (video.py:136); the model runs
\* the same code with a small capacity so that eviction is reachable.
MAX_VIDEOS == 3

\* Number of ids that callers also submit with a second set of field values.
NumResubmitted == 1
\* Number of ids for which a transcript is fetched and cached.
NumFetched == 2
\* Background threads of the application in flight at once.
MaxThreads == 2
\* Longest identifier string handed to the identifier check.
MaxIdLen == 3
\* Longest credential string stored with SettingsStore.set.
MaxKeyLen == 2
\* Longest translation key handed to I18nManager.get, in characters.
MaxKeyChars == 3

Ids == 1..NumIds
\* Python None
None == "None"
\* Values of the descriptive fields a caller can pass.  Every id is
\* submitted with url "u1"; the ids of Resubmitted are also submitted with
\* url "u2" (and the title, thumbnail and timestamp that go with it), so
\* that a re-add can carry field values that differ from the stored ones.
Urls == {"u1", "u2"}
Resubmitted == 1..NumResubmitted
\* The ids set_transcript is called with.
Fetched == 1..NumFetched
\* Transcript payloads (a list of TranscriptEntry, opaque to the store).
Payloads == {"p1"}

\* ------------------------------------------------------------ pure helpers
Max(S) == CHOOSE x \in S : \A y \in S : y <= x

\* The set of ids of the records of a list.
IdsOf(vs) == {vs[i].id : i \in DOMAIN vs}

\* Video(id, url, title, thumbnail): the dataclass constructor as the callers
\* use it; transcript defaults to None.  added_at is the creation timestamp.
Video(id, url, title, thumbnail, added_at) ==
  [id |-> id, url |-> url, title |-> title, thumbnail |-> thumbnail,
   added_at |-> added_at, transcript |-> None]

\* Video.to_dict: the persisted form, without the transcript.
to_dict(v) ==
  [id |-> v.id, url |-> v.url, title |-> v.title, thumbnail |-> v.thumbnail,
   added_at |-> v.added_at]

\* Video.from_dict: a record read back from the document; no transcript.
from_dict(d) ==
  [id |-> d.id, url |-> d.url, title |-> d.title, thumbnail |-> d.thumbnail,
   added_at |-> d.added_at, transcript |-> None]

\* The Video objects a caller can construct for the bounded inputs.
VideoInputs ==
  {Video(id, u, "t" \o u, "th" \o u, "d" \o u) :
     <<id, u>> \in (Ids \X {"u1"}) \cup (Resubmitted \X Urls)}

\* dict.get(key) with default None
DictGet(d, k) == IF k \in DOMAIN d THEN d[k] ELSE None

\* dict.pop(key, None): the dict without key
DictPop(d, k) == [x \in DOMAIN d \ {k} |-> d[x]]

\* d[key] = value
DictSet(d, k, val) == [x \in DOMAIN d \cup {k} |-> IF x = k THEN val ELSE d[x]]

\* list.insert(0, v)
InsertFront(vs, v) == <<v>> \o vs

\* list.pop(idx) for a 0-based idx: the list without that element
PopAt(vs, idx) == SubSeq(vs, 1, idx) \o SubSeq(vs, idx + 2, Len(vs))

\* [v for v in videos if v.id != video_id]
RECURSIVE FilterOut(_, _)
FilterOut(vs, id) ==
  IF vs = <<>> THEN <<>>
  ELSE IF Head(vs).id = id THEN FilterOut(Tail(vs), id)
       ELSE <<Head(vs)>> \o FilterOut(Tail(vs), id)

\* VideoStore._rebuild_index: {v.id: i for i, v in enumerate(self.videos)};
\* for a repeated id the comprehension keeps the last position.
RebuildIndex(vs) ==
  [k \in IdsOf(vs) |-> Max({i \in DOMAIN vs : vs[i].id = k}) - 1]

\* json.dump([v.to_dict() for v in self.videos], ...)
Document(vs) == [i \in DOMAIN vs |-> to_dict(vs[i])]

\* ------------------------------------------------------------------- state
VARIABLES
  videos,            \* VideoStore.videos: list of Video, most recent first
  _index,            \* VideoStore._index: dict id -> 0-based position
  _transcript_cache, \* VideoStore._transcript_cache: dict id -> payload
  disk,              \* the file at data_path: [state, doc]
  last,              \* the call that produced this state
  recency,           \* history of adds and promotions since construction
  guard,             \* history of the calls that concern the id KeepAlive
  about,             \* the id the last call was given, and how it stood
  threads,           \* the application's background threads in flight
  listed,            \* the ids the application's video list shows
  _settings,         \* SettingsStore._settings: the key -> value map
  settings_file,     \* the file at settings_path
  summaries,         \* the files of the file system: path -> contents
  ret,               \* the last call on a settings or summary store, or of
                     \* a function, with what it returned
  current_video_id,  \* YTSummarizer.current_video_id (0 for None)
  deleted,           \* the ids whose deletion the user confirmed and has
                     \* not submitted again since
  ui                 \* the widgets: the state of generate_btn and, for
                     \* each panel, the id of the video whose title,
                     \* summary or transcript (or placeholder or error) it
                     \* shows, 0 for the text of _clear_panels

vars ==
  <<videos, _index, _transcript_cache, disk, last, recency, guard, about,
    threads, listed, _settings, settings_file, summaries, ret,
    current_video_id, deleted, ui>>

\* The state of the settings and summary stores.
side ==
  <<_settings, settings_file, summaries, ret, current_video_id, deleted,
    ui>>

\* The store object: the three in-memory attributes of a VideoStore.
Self == [videos |-> videos, _index |-> _index,
         _transcript_cache |-> _transcript_cache]

\* Result of a handler: the attributes after the call, and whether the
\* handler reached self.save().
Result(vs, idx, cache, saves) ==
  [videos |-> vs, _index |-> idx, _transcript_cache |-> cache, saves |-> saves]

\* ---------------------------------------------------------------- handlers
\* The tail cut off by videos[MAX_VIDEOS:] and the kept videos[:MAX_VIDEOS].
SliceFrom(vs, n) == SubSeq(vs, n + 1, Len(vs))
SliceTo(vs, n) == SubSeq(vs, 1, IF Len(vs) < n THEN Len(vs) ELSE n)

\* for v in removed: cache.pop(v.id, None)
PopAll(cache, removed) == [x \in DOMAIN cache \ IdsOf(removed) |-> cache[x]]

\* Variants of add, each with one plausible slip:
\* the capacity test compares against MAX_VIDEOS + 1
add_NoTruncate(self, video) ==
  IF video.id \in DOMAIN self._index
  THEN Result(self.videos, self._index, self._transcript_cache, FALSE)
  ELSE LET inserted == InsertFront(self.videos, video)
           over == Len(inserted) > MAX_VIDEOS + 1
           removed == IF over THEN SliceFrom(inserted, MAX_VIDEOS) ELSE <<>>
           kept == IF over THEN SliceTo(inserted, MAX_VIDEOS) ELSE inserted
           cache == IF over THEN PopAll(self._transcript_cache, removed)
                    ELSE self._transcript_cache
       IN Result(kept, RebuildIndex(kept), cache, TRUE)
\* the membership test is missing
add_NoDupCheck(self, video) ==
  LET inserted == InsertFront(self.videos, video)
      over == Len(inserted) > MAX_VIDEOS
      removed == IF over THEN SliceFrom(inserted, MAX_VIDEOS) ELSE <<>>
      kept == IF over THEN SliceTo(inserted, MAX_VIDEOS) ELSE inserted
      cache == IF over THEN PopAll(self._transcript_cache, removed)
               ELSE self._transcript_cache
  IN Result(kept, RebuildIndex(kept), cache, TRUE)
\* the transcripts of the evicted records stay cached
add_KeepCache(self, video) ==
  IF video.id \in DOMAIN self._index
  THEN Result(self.videos, self._index, self._transcript_cache, FALSE)
  ELSE LET inserted == InsertFront(self.videos, video)
           over == Len(inserted) > MAX_VIDEOS
           kept == IF over THEN SliceTo(inserted, MAX_VIDEOS) ELSE inserted
       IN Result(kept, RebuildIndex(kept), self._transcript_cache, TRUE)
\* the new record is appended instead of inserted at the front, and the
\* front is cut off
add_Append(self, video) ==
  IF video.id \in DOMAIN self._index
  THEN Result(self.videos, self._index, self._transcript_cache, FALSE)
  ELSE LET inserted == Append(self.videos, video)
           over == Len(inserted) > MAX_VIDEOS
           removed == IF over THEN SubSeq(inserted, 1, Len(inserted) - MAX_VIDEOS)
                      ELSE <<>>
           kept == IF over THEN SliceFrom(inserted, Len(inserted) - MAX_VIDEOS)
                   ELSE inserted
           cache == IF over THEN PopAll(self._transcript_cache, removed)
                    ELSE self._transcript_cache
       IN Result(kept, RebuildIndex(kept), cache, TRUE)
\* the list is cut to MAX_VIDEOS - 1 records
add_OffByOne(self, video) ==
  IF video.id \in DOMAIN self._index
  THEN Result(self.videos, self._index, self._transcript_cache, FALSE)
  ELSE LET inserted == InsertFront(self.videos, video)
           over == Len(inserted) > MAX_VIDEOS
           removed == IF over THEN SliceFrom(inserted, MAX_VIDEOS - 1) ELSE <<>>
           kept == IF over THEN SliceTo(inserted, MAX_VIDEOS - 1) ELSE inserted
           cache == IF over THEN PopAll(self._transcript_cache, removed)
                    ELSE self._transcript_cache
       IN Result(kept, RebuildIndex(kept), cache, TRUE)
\* an id already present has its record replaced by the one passed
add_Upsert(self, video) ==
  IF video.id \in DOMAIN self._index
  THEN Result([self.videos EXCEPT ![self._index[video.id] + 1] = video],
              self._index, self._transcript_cache, TRUE)
  ELSE LET inserted == InsertFront(self.videos, video)
           over == Len(inserted) > MAX_VIDEOS
           removed == IF over THEN SliceFrom(inserted, MAX_VIDEOS) ELSE <<>>
           kept == IF over THEN SliceTo(inserted, MAX_VIDEOS) ELSE inserted
           cache == IF over THEN PopAll(self._transcript_cache, removed)
                    ELSE self._transcript_cache
       IN Result(kept, RebuildIndex(kept), cache, TRUE)

\* VideoStore.add
add(self, video) ==
  IF video.id \in DOMAIN self._index
  THEN Result(self.videos, self._index, self._transcript_cache, FALSE)
  ELSE LET inserted == InsertFront(self.videos, video)
           over == Len(inserted) > MAX_VIDEOS
           removed == IF over THEN SliceFrom(inserted, MAX_VIDEOS) ELSE <<>>
           kept == IF over THEN SliceTo(inserted, MAX_VIDEOS) ELSE inserted
           cache == IF over THEN PopAll(self._transcript_cache, removed)
                    ELSE self._transcript_cache
       IN Result(kept, RebuildIndex(kept), cache, TRUE)

\* Variants of remove, each with one plausible slip:
\* the whole cache is cleared (self._transcript_cache.clear())
remove_ClearsCache(self, video_id) ==
  LET kept == FilterOut(self.videos, video_id)
  IN Result(kept, RebuildIndex(kept), <<>>, TRUE)

\* VideoStore.remove
remove(self, video_id) ==
  LET kept == FilterOut(self.videos, video_id)
  IN Result(kept, RebuildIndex(kept),
            DictPop(self._transcript_cache, video_id), TRUE)

\* Variants of move_to_top, each with one plausible slip:
\* the index is not rebuilt after the move
move_to_top_StaleIndex(self, video_id) ==
  IF video_id \in DOMAIN self._index /\ self._index[video_id] > 0
     THEN LET idx == self._index[video_id]
              video == self.videos[idx + 1]
              moved == InsertFront(PopAt(self.videos, idx), video)
          IN Result(moved, self._index, self._transcript_cache, TRUE)
     ELSE Result(self.videos, self._index, self._transcript_cache, FALSE)
\* the record is swapped with the front record
move_to_top_Swap(self, video_id) ==
  IF video_id \in DOMAIN self._index /\ self._index[video_id] > 0
     THEN LET idx == self._index[video_id]
              moved == [self.videos EXCEPT ![1] = self.videos[idx + 1],
                                           ![idx + 1] = self.videos[1]]
          IN Result(moved, RebuildIndex(moved), self._transcript_cache, TRUE)
     ELSE Result(self.videos, self._index, self._transcript_cache, FALSE)
\* an absent id reads as position -1 (self._index.get(video_id, -1) with the
\* test idx != 0), so that videos.pop(-1) moves the last record to the top
move_to_top_AbsentMovesLast(self, video_id) ==
  LET idx == IF video_id \in DOMAIN self._index THEN self._index[video_id]
             ELSE Len(self.videos) - 1
  IN IF idx > 0
     THEN LET video == self.videos[idx + 1]
              moved == InsertFront(PopAt(self.videos, idx), video)
          IN Result(moved, RebuildIndex(moved), self._transcript_cache, TRUE)
     ELSE Result(self.videos, self._index, self._transcript_cache, FALSE)
\* the record is popped and not inserted again
move_to_top_NoInsert(self, video_id) ==
  IF video_id \in DOMAIN self._index /\ self._index[video_id] > 0
     THEN LET moved == PopAt(self.videos, self._index[video_id])
          IN Result(moved, RebuildIndex(moved), self._transcript_cache, TRUE)
     ELSE Result(self.videos, self._index, self._transcript_cache, FALSE)

\* VideoStore.move_to_top
move_to_top(self, video_id) ==
  \* idx = self._index.get(video_id); idx is not None and idx > 0
  IF video_id \in DOMAIN self._index /\ self._index[video_id] > 0
     THEN LET idx == self._index[video_id]
              video == self.videos[idx + 1]
              moved == InsertFront(PopAt(self.videos, idx), video)
          IN Result(moved, RebuildIndex(moved), self._transcript_cache, TRUE)
     ELSE Result(self.videos, self._index, self._transcript_cache, FALSE)

\* The list with the transcript attribute of the record at 1-based i set.
WithTranscript(vs, i, t) ==
  [vs EXCEPT ![i] = [@ EXCEPT !.transcript = t]]

\* Variant of get with one plausible slip: the record is returned as stored,
\* without the cached transcript attached
get_NoRefresh(self, video_id) ==
  Result(self.videos, self._index, self._transcript_cache, FALSE)

\* VideoStore.get: attaches the cached transcript to the record it returns.
get(self, video_id) ==
  IF video_id \in DOMAIN self._index
     THEN Result(WithTranscript(self.videos, self._index[video_id] + 1,
                                DictGet(self._transcript_cache, video_id)),
                 self._index, self._transcript_cache, FALSE)
     ELSE Result(self.videos, self._index, self._transcript_cache, FALSE)

\* The value VideoStore.get returns: <<record>>, or <<>> for None.
get_return(self, video_id) ==
  IF video_id \in DOMAIN self._index
  THEN <<get(self, video_id).videos[self._index[video_id] + 1]>>
  ELSE <<>>

\* VideoStore.set_transcript: mirrors onto the first record with that id.
set_transcript(self, video_id, transcript) ==
  LET hits == {i \in DOMAIN self.videos : self.videos[i].id = video_id}
      first == CHOOSE i \in hits : \A j \in hits : i <= j
  IN Result(IF hits = {} THEN self.videos
            ELSE WithTranscript(self.videos, first, transcript),
            self._index,
            DictSet(self._transcript_cache, video_id, transcript), FALSE)

\* VideoStore.get_transcript
get_transcript(self, video_id) == DictGet(self._transcript_cache, video_id)

\* VideoStore.save under a write outcome: "ok" replaces the file by the new
\* document; open() failing leaves the file alone; open(..., "w") truncates,
\* so a failure inside json.dump leaves a truncated file.
NoFile == [state |-> "none", doc |-> <<>>]
save(file, vs, w) ==
  CASE w = "ok" -> [state |-> "file", doc |-> Document(vs)]
    [] w = "open_fails" -> file
    [] w = "write_fails" -> [state |-> "torn", doc |-> <<>>]

\* Variant of load with one plausible slip: the index is not rebuilt after
\* the records are read
load_NoRebuild(file) ==
  LET vs == IF file.state = "file"
            THEN [i \in DOMAIN file.doc |-> from_dict(file.doc[i])]
            ELSE <<>>
  IN Result(vs, <<>>, <<>>, FALSE)

\* VideoStore.__init__ and load on the file at data_path: no file gives the
\* empty list; a truncated file makes json.load raise JSONDecodeError, which
\* load catches, and gives the empty list too. The cache starts empty.
load(file) ==
  LET vs == IF file.state = "file"
            THEN [i \in DOMAIN file.doc |-> from_dict(file.doc[i])]
            ELSE <<>>
  IN Result(vs, RebuildIndex(vs), <<>>, FALSE)

\* ------------------------------------------------------------ identifiers
\* Strings are sequences of characters. The characters of the model: letters
\* and digits, hyphen and underscore, and characters outside the class of
\* _SAFE_ID_RE: path separator, dot, space, line feed and carriage return.
Letters == {"a", "m", "d", "x", "Z"}
Digits == {"1", "2", "3", "4", "5", "6", "7"}
LF == "LF"
CR == "CR"
\* [a-zA-Z0-9_-]
SafeChar(c) == c \in Letters \cup Digits \cup {"_", "-"}

\* _SAFE_ID_RE.match(video_id) for r'^[a-zA-Z0-9_-]+$': the class repeated
\* one or more times from the start, then $, which in Python matches at the
\* end of the string and also just before a line feed that ends the string.
SafeIdMatch(video_id) ==
  LET n == Len(video_id)
      body == IF n > 0 /\ video_id[n] = LF THEN SubSeq(video_id, 1, n - 1)
              ELSE video_id
  IN body # <<>> /\ \A i \in DOMAIN body : SafeChar(body[i])

\* The identifier strings handed to the check.
IdAlphabet == {"a", "7", "-", "_", "/", ".", " ", LF}
IdStrings == UNION {[1..n -> IdAlphabet] : n \in 0..MaxIdLen}

\* ------------------------------------------------------------ SummaryStore
\* A path is the sequence of its components. summaries_dir:
SummariesDir == << <<"d">>, <<"s">> >>

\* The components of a relative path string: split at "/", empty components
\* and "." dropped (pathlib keeps "..").
RECURSIVE Split(_, _)
Split(str, cur) ==
  IF str = <<>> THEN IF cur = <<>> THEN <<>> ELSE <<cur>>
  ELSE IF Head(str) = "/"
       THEN (IF cur = <<>> THEN <<>> ELSE <<cur>>) \o Split(Tail(str), <<>>)
       ELSE Split(Tail(str), Append(cur, Head(str)))
Parts(str) == SelectSeq(Split(str, <<>>), LAMBDA c : c # <<".">>)

\* pathlib's dir / str: a str that starts with "/" replaces dir.
PathJoin(dir, str) ==
  IF str # <<>> /\ str[1] = "/" THEN Parts(str) ELSE dir \o Parts(str)

\* Variant of _get_file_path with one plausible slip: the identifier is not
\* checked
_get_file_path_NoCheck(video_id) ==
  <<PathJoin(SummariesDir, video_id \o <<".", "m", "d">>)>>

\* SummaryStore._get_file_path: <<path>>, or <<>> when it raises ValueError.
_get_file_path(video_id) ==
  IF ~SafeIdMatch(video_id) THEN <<>>
  ELSE <<PathJoin(SummariesDir, video_id \o <<".", "m", "d">>)>>

\* open(..., "w", encoding="utf-8").write(text): text mode writes each line
\* feed as os.linesep, which is LF or CR LF by platform.
Lineseps == {<<LF>>, <<CR, LF>>}
RECURSIVE WriteText(_, _)
WriteText(text, linesep) ==
  IF text = <<>> THEN <<>>
  ELSE (IF Head(text) = LF THEN linesep ELSE <<Head(text)>>)
         \o WriteText(Tail(text), linesep)

\* open(..., "r", encoding="utf-8").read(): text mode reads CR LF and a lone
\* CR as LF.
RECURSIVE ReadText(_)
ReadText(bytes) ==
  IF bytes = <<>> THEN <<>>
  ELSE IF Head(bytes) = CR
       THEN <<LF>> \o ReadText(IF Len(bytes) > 1 /\ bytes[2] = LF
                               THEN Tail(Tail(bytes)) ELSE Tail(bytes))
       ELSE <<Head(bytes)>> \o ReadText(Tail(bytes))

\* Outcome of a call: the files after it, whether it raised, the value it
\* returned (<<v>>, or <<>> for None) and the paths it accessed.
Out(files, raised, value, paths) ==
  [files |-> files, raised |-> raised, value |-> value, paths |-> paths]

\* SummaryStore.get. stat is the outcome of the stat call inside
\* file_path.exists(), which is outside the try block: an OSError other than
\* ENOENT, ENOTDIR, EBADF, ELOOP (a name too long, a directory that cannot
\* be searched) leaves exists() as it is raised. rd is the outcome of open
\* and read, inside the try block.
SummaryStore_get(files, video_id, stat, rd) ==
  LET fp == _get_file_path(video_id) IN
  IF fp = <<>> THEN Out(files, FALSE, <<>>, {})
  ELSE IF stat = "stat_fails" THEN Out(files, TRUE, <<>>, {fp[1]})
  ELSE IF fp[1] \in DOMAIN files /\ rd = "ok"
       THEN Out(files, FALSE, <<ReadText(files[fp[1]])>>, {fp[1]})
       ELSE Out(files, FALSE, <<>>, {fp[1]})

\* SummaryStore.set under a write outcome w (as for VideoStore.save).
SummaryStore_set(files, video_id, summary, w, linesep) ==
  LET fp == _get_file_path(video_id)
      put(text) == [q \in DOMAIN files \cup {fp[1]} |->
                      IF q = fp[1] THEN text ELSE files[q]]
  IN IF fp = <<>> THEN Out(files, TRUE, <<>>, {})
     ELSE CASE w = "ok" ->
                 Out(put(WriteText(summary, linesep)), FALSE, <<>>, {fp[1]})
            [] w = "open_fails" -> Out(files, TRUE, <<>>, {fp[1]})
            [] w = "write_fails" -> Out(put(<<>>), TRUE, <<>>, {fp[1]})

\* SummaryStore.remove. stat is the outcome of the stat call inside
\* file_path.exists(), as in get: remove has no try block, so an OSError of
\* that call leaves remove as it is raised.
SummaryStore_remove(files, video_id, stat) ==
  LET fp == _get_file_path(video_id) IN
  IF fp = <<>> THEN Out(files, TRUE, <<>>, {})
  ELSE IF stat = "stat_fails" THEN Out(files, TRUE, <<>>, {fp[1]})
  ELSE Out([q \in DOMAIN files \ {fp[1]} |-> files[q]], FALSE, <<>>, {fp[1]})

\* The last call on a settings or summary store.
Called(op, arg, o) ==
  [op |-> op, arg |-> arg, raised |-> o.raised, value |-> o.value,
   paths |-> o.paths]
NoCall == [op |-> "none", arg |-> <<>>, raised |-> FALSE, value |-> <<>>,
           paths |-> {}]

\* ----------------------------------------------------------- SettingsStore
\* Setting values as json holds them: a string is the sequence of its code
\* points, a number, null, a list, an object (a key -> value map).
Str(cps) == [t |-> "str", v |-> cps]
Num(n) == [t |-> "num", v |-> <<n>>]
Null == [t |-> "null", v |-> <<>>]
Arr(items) == [t |-> "arr", v |-> items]
Obj(map) == [t |-> "obj", v |-> map]
\* Python truthiness of a value.
Truthy(val) ==
  CASE val.t = "str" -> val.v # <<>>
    [] val.t = "num" -> val.v # <<0>>
    [] val.t = "null" -> FALSE
    [] val.t = "arr" -> val.v # <<>>
    [] val.t = "obj" -> DOMAIN val.v # {}

\* str.encode() raises UnicodeEncodeError for a string that holds a
\* surrogate code point.
Encodable(cps) == \A i \in DOMAIN cps : cps[i] < 55296 \/ cps[i] > 57343
\* str.encode(): UTF-8, for code points below 2048.
RECURSIVE Utf8Encode(_)
Utf8Encode(cps) ==
  IF cps = <<>> THEN <<>>
  ELSE (IF Head(cps) < 128 THEN <<Head(cps)>>
        ELSE <<192 + (Head(cps) \div 64), 128 + (Head(cps) % 64)>>)
         \o Utf8Encode(Tail(cps))

\* bytes.decode(): <<code points>>, or <<>> when it raises
\* UnicodeDecodeError (a stray continuation byte, a truncated or overlong
\* sequence, a surrogate, a value above 0x10FFFF).
IsCont(b) == b >= 128 /\ b <= 191
RECURSIVE Utf8Decode(_)
Utf8Decode(bytes) ==
  IF bytes = <<>> THEN << <<>> >>
  ELSE LET b == bytes[1]
           n == Len(bytes)
           need == CASE b < 128 -> 1
                     [] b >= 194 /\ b <= 223 -> 2
                     [] b >= 224 /\ b <= 239 -> 3
                     [] b >= 240 /\ b <= 244 -> 4
                     [] OTHER -> 0
           ok == /\ need > 0 /\ n >= need
                 /\ \A i \in 2..need : IsCont(bytes[i])
                 /\ (b = 224 => bytes[2] >= 160)
                 /\ (b = 237 => bytes[2] <= 159)
                 /\ (b = 240 => bytes[2] >= 144)
                 /\ (b = 244 => bytes[2] <= 143)
           cp == CASE need = 1 -> b
                   [] need = 2 -> (b - 192) * 64 + (bytes[2] - 128)
                   [] need = 3 -> (b - 224) * 4096 + (bytes[2] - 128) * 64
                                    + (bytes[3] - 128)
                   [] OTHER -> (b - 240) * 262144 + (bytes[2] - 128) * 4096
                                 + (bytes[3] - 128) * 64 + (bytes[4] - 128)
           rest == IF ok THEN Utf8Decode(SubSeq(bytes, need + 1, n)) ELSE <<>>
       IN IF ok /\ rest # <<>> THEN << <<cp>> \o rest[1] >> ELSE <<>>

\* The base64 alphabet: the byte of a 6-bit value, and the 6-bit value of a
\* byte (64 for a byte outside the alphabet).
B64Char(i) ==
  CASE i < 26 -> 65 + i
    [] i >= 26 /\ i < 52 -> 97 + (i - 26)
    [] i >= 52 /\ i < 62 -> 48 + (i - 52)
    [] i = 62 -> 43
    [] OTHER -> 47
B64Value(b) ==
  CASE b >= 65 /\ b <= 90 -> b - 65
    [] b >= 97 /\ b <= 122 -> b - 97 + 26
    [] b >= 48 /\ b <= 57 -> b - 48 + 52
    [] b = 43 -> 62
    [] b = 47 -> 63
    [] OTHER -> 64
Pad == 61

\* base64.b64encode(bytes)
RECURSIVE b64encode(_)
b64encode(bytes) ==
  LET n == Len(bytes) IN
  IF n = 0 THEN <<>>
  ELSE IF n = 1
  THEN <<B64Char(bytes[1] \div 4), B64Char((bytes[1] % 4) * 16), Pad, Pad>>
  ELSE IF n = 2
  THEN <<B64Char(bytes[1] \div 4),
         B64Char((bytes[1] % 4) * 16 + (bytes[2] \div 16)),
         B64Char((bytes[2] % 16) * 4), Pad>>
  ELSE <<B64Char(bytes[1] \div 4),
         B64Char((bytes[1] % 4) * 16 + (bytes[2] \div 16)),
         B64Char((bytes[2] % 16) * 4 + (bytes[3] \div 64)),
         B64Char(bytes[3] % 64)>> \o b64encode(SubSeq(bytes, 4, n))

\* base64.b64decode(bytes), which is binascii.a2b_base64 without strict
\* mode: bytes outside the alphabet are skipped; a pad that completes a
\* quad ends the parse; data left in an incomplete quad at the end raises
\* binascii.Error. scan carries the position in the quad, the bits left
\* over, and the count of pads seen since the last data byte.
RECURSIVE a2b_scan(_, _, _, _)
a2b_scan(bytes, quad_pos, leftchar, pads) ==
  IF bytes = <<>> THEN IF quad_pos = 0 THEN << <<>> >> ELSE <<>>
  ELSE LET b == Head(bytes)
           this_ch == B64Value(b)
       IN IF b = Pad
          THEN IF quad_pos >= 2 /\ quad_pos + pads + 1 >= 4 THEN << <<>> >>
               ELSE a2b_scan(Tail(bytes), quad_pos, leftchar,
                             IF quad_pos >= 2 THEN pads + 1 ELSE pads)
          ELSE IF this_ch = 64
          THEN a2b_scan(Tail(bytes), quad_pos, leftchar, pads)
          ELSE LET out == CASE quad_pos = 0 -> <<>>
                            [] quad_pos = 1 ->
                                 <<leftchar * 4 + (this_ch \div 16)>>
                            [] quad_pos = 2 ->
                                 <<leftchar * 16 + (this_ch \div 4)>>
                            [] OTHER -> <<leftchar * 64 + this_ch>>
                   left == CASE quad_pos = 0 -> this_ch
                             [] quad_pos = 1 -> this_ch % 16
                             [] quad_pos = 2 -> this_ch % 4
                             [] OTHER -> 0
                   rest == a2b_scan(Tail(bytes), (quad_pos + 1) % 4, left, 0)
               IN IF rest = <<>> THEN <<>> ELSE << out \o rest[1] >>
\* <<bytes>>, or <<>> when it raises
b64decode(bytes) == a2b_scan(bytes, 0, 0, 0)

\* The file at settings_path: no file, a file whose text json parses to doc,
\* a truncated file or other text json cannot parse ("torn"), or bytes that
\* are not UTF-8 ("undecodable").
NoSettingsFile == [state |-> "none", doc |-> Null]

\* SettingsStore.load: the value of _settings afterwards. Whatever json
\* value the text parses to is kept; JSONDecodeError gives the empty map.
SettingsStore_load(file) ==
  IF file.state = "file" THEN file.doc ELSE Obj(<<>>)
\* load raises: UnicodeDecodeError is a ValueError, which the except clause
\* (json.JSONDecodeError, KeyError) does not catch.
SettingsStore_load_raises(file) == file.state = "undecodable"

\* Variant of save with one plausible slip: only string values are written
SettingsStore_save_StringsOnly(file, settings, w) ==
  CASE w = "ok" ->
         [state |-> "file",
          doc |-> Obj([k \in {x \in DOMAIN settings.v :
                                 settings.v[x].t = "str"} |-> settings.v[k]])]
    [] w = "open_fails" -> file
    [] w = "write_fails" -> [state |-> "torn", doc |-> Null]

\* SettingsStore.save under a write outcome (as VideoStore.save): json.dump
\* of a map with string keys and string, number or null values parses back
\* to the same map.
SettingsStore_save(file, settings, w) ==
  CASE w = "ok" -> [state |-> "file", doc |-> settings]
    [] w = "open_fails" -> file
    [] w = "write_fails" -> [state |-> "torn", doc |-> Null]

\* base64.b64decode(value.encode()).decode(): <<string>>, or <<>> when any
\* of the three calls raises (a value that is no string has no encode).
Decoded(value) ==
  IF value.t # "str" \/ ~Encodable(value.v) THEN <<>>
  ELSE LET bytes == b64decode(Utf8Encode(value.v))
       IN IF bytes = <<>> THEN <<>>
          ELSE LET cps == Utf8Decode(bytes[1])
               IN IF cps = <<>> THEN <<>> ELSE <<Str(cps[1])>>

\* Variant of get with one plausible slip: the stored value of api_key is
\* returned as stored
SettingsStore_get_NoDecode(settings, key, default) ==
  IF settings.t # "obj" THEN [raised |-> TRUE, value |-> <<>>]
  ELSE [raised |-> FALSE,
        value |-> <<IF key \in DOMAIN settings.v THEN settings.v[key]
                    ELSE default>>]

\* SettingsStore.get: what it returns or that it raises (_settings that is
\* no dict has no get: AttributeError).
SettingsStore_get(settings, key, default) ==
  IF settings.t # "obj" THEN [raised |-> TRUE, value |-> <<>>]
  ELSE LET value == IF key \in DOMAIN settings.v THEN settings.v[key]
                    ELSE default
       IN [raised |-> FALSE,
           value |-> IF key = "api_key" /\ Truthy(value)
                     THEN IF Decoded(value) # <<>> THEN Decoded(value)
                          ELSE <<value>>
                     ELSE <<value>>]

\* SettingsStore.set: _settings and the file afterwards, and whether it
\* raised. value.encode() raises for a value that is no string or holds a
\* surrogate, the item assignment raises for _settings that is no dict, both
\* before save().
SettingsStore_set(settings, file, key, value, w) ==
  LET encodes == key = "api_key" /\ Truthy(value)
      stored == IF encodes /\ value.t = "str"
                THEN Str(b64encode(Utf8Encode(value.v))) ELSE value
      after == Obj([k \in DOMAIN settings.v \cup {key} |->
                      IF k = key THEN stored ELSE settings.v[k]])
  IN IF (encodes /\ (value.t # "str" \/ ~Encodable(value.v)))
        \/ settings.t # "obj"
     THEN [settings |-> settings, file |-> file, raised |-> TRUE]
     ELSE [settings |-> after,
           file |-> SettingsStore_save(file, after, w),
           raised |-> w # "ok"]

\* ------------------------------------------------- documents of any content
\* A catalog file that save() did not write has state "json" and holds, in
\* doc[1], the json value its text parses to, or has state "undecodable"
\* (bytes that are not UTF-8). An object of the list is a map from keys to
\* the values of a record.
RecordKeys == {"id", "url", "title", "thumbnail"}
\* datetime.now().isoformat() at the time of the load
Now == "now"
\* Video.from_dict(v) for one element of the document: "KeyError" for an
\* object that lacks a key, "TypeError" for an element that is no object
\* (subscripting a number, null, a string or a list with "id").
ElementFails(e) ==
  IF e.t = "obj"
  THEN IF RecordKeys \subseteq DOMAIN e.v THEN "none" ELSE "KeyError"
  ELSE "TypeError"
\* Video.from_dict with data.get("added_at", now)
from_dict_any(e) ==
  Video(e.v["id"], e.v["url"], e.v["title"], e.v["thumbnail"],
        IF "added_at" \in DOMAIN e.v THEN e.v["added_at"] ELSE Now)
\* [Video.from_dict(v) for v in data]: the exception that ends it, or "none".
\* Iterating a number or null raises TypeError; an object yields its keys
\* and a string its characters, each a string; the elements of a list are
\* converted in order, so the first that fails decides.
ComprehensionFails(data) ==
  CASE data.t \in {"num", "null"} -> "TypeError"
    [] data.t = "str" -> IF data.v = <<>> THEN "none" ELSE "TypeError"
    [] data.t = "obj" -> IF DOMAIN data.v = {} THEN "none" ELSE "TypeError"
    [] data.t = "arr" ->
         LET bad == {i \in DOMAIN data.v : ElementFails(data.v[i]) # "none"}
         IN IF bad = {} THEN "none"
            ELSE ElementFails(data.v[CHOOSE i \in bad : \A j \in bad : i <= j])
\* VideoStore.load raises: UnicodeDecodeError and TypeError are not in the
\* except clause (json.JSONDecodeError, KeyError).
load_raises(file) ==
  \/ file.state = "undecodable"
  \/ file.state = "json" /\ ComprehensionFails(file.doc[1]) = "TypeError"
\* VideoStore.load on a file of any content, when it does not raise.
load_any(file) ==
  IF file.state = "json"
  THEN LET data == file.doc[1]
           vs == IF data.t = "arr" /\ ComprehensionFails(data) = "none"
                 THEN [i \in DOMAIN data.v |-> from_dict_any(data.v[i])]
                 ELSE <<>>
       IN Result(vs, RebuildIndex(vs), <<>>, FALSE)
  ELSE load(file)

\* ----------------------------------------------------------------- history
\* The call that produced the current state: its name, the url of the Video
\* passed to add ("-" for the other calls), whether it reached self.save()
\* and whether it raised.
Call(op, arg, r, w) ==
  [op |-> op, arg |-> arg, saved |-> r.saves, raised |-> r.saves /\ w # "ok"]

\* The order of the ids by their latest add or promotion, newest first, kept
\* while the run consists of adds of fresh ids and of move_to_top calls only.
\* A promotion is a move_to_top of an id among the MAX_VIDEOS newest.
Without(s, x) == SelectSeq(s, LAMBDA y : y # x)
SeqElems(s) == {s[i] : i \in DOMAIN s}
Newest(order) == SeqElems(SliceTo(order, MAX_VIDEOS))
OutOfScope == [pure |-> FALSE, order |-> <<>>]
AfterAdd(h, id) ==
  IF h.pure /\ id \notin SeqElems(h.order)
  THEN [h EXCEPT !.order = <<id>> \o @] ELSE OutOfScope
AfterMove(h, id) ==
  IF h.pure /\ id \in Newest(h.order)
  THEN [h EXCEPT !.order = <<id>> \o Without(@, id)] ELSE h

\* How the calls treat one chosen id, KeepAlive:
\*   lit:    "kept" once KeepAlive was added, "due" after an add of another
\*           id until move_to_top(KeepAlive) is called, "off" once an add of
\*           another id was not followed by move_to_top(KeepAlive) before the
\*           next such add, or remove(KeepAlive) was called.
\*   strict: the same, and also "off" once another id is promoted while
\*           KeepAlive is "kept" (between move_to_top(KeepAlive) and the next
\*           add).
KeepAlive == 1
Watched == {"kept", "due"}
GuardAdd(g, id) ==
  IF id = KeepAlive
  THEN [lit |-> IF g.lit = "none" THEN "kept" ELSE g.lit,
        strict |-> IF g.strict = "none" THEN "kept" ELSE g.strict]
  ELSE LET step(x) == CASE x = "kept" -> "due" [] x = "due" -> "off"
                        [] OTHER -> x
       IN [lit |-> step(g.lit), strict |-> step(g.strict)]
GuardMove(g, id, present) ==
  IF id = KeepAlive
  THEN [lit |-> IF g.lit = "due" THEN "kept" ELSE g.lit,
        strict |-> IF g.strict = "due" THEN "kept" ELSE g.strict]
  ELSE [g EXCEPT !.strict = IF @ = "kept" /\ present THEN "off" ELSE @]
GuardRemove(g, id) ==
  IF id = KeepAlive
  THEN [lit |-> IF g.lit \in Watched THEN "off" ELSE g.lit,
        strict |-> IF g.strict \in Watched THEN "off" ELSE g.strict]
  ELSE g

\* A slot for a background thread of the application: what it runs ("add":
\* the thread of _add_video, "fetch": the thread of _fetch_transcript), for
\* which id, and how far it has come.
Idle == [kind |-> "idle", id |-> 0, pc |-> "-", t |-> None]
Thread(kind, id, pc, t) == [kind |-> kind, id |-> id, pc |-> pc, t |-> t]

\* ------------------------------------------------------------------ actions
\* A handler's effect on the object and, when it saves, on the file.
Apply(r, w) ==
  /\ videos' = r.videos
  /\ _index' = r._index
  /\ _transcript_cache' = r._transcript_cache
  /\ disk' = IF r.saves THEN save(disk, r.videos, w) ELSE disk

AddOp(video, w) ==
  LET r == add(Self, video) IN
  /\ Apply(r, w)
  /\ last' = Call("add", video.url, r, w)
  /\ recency' = AfterAdd(recency, video.id)

RemoveOp(video_id, w) ==
  LET r == remove(Self, video_id) IN
  /\ Apply(r, w)
  /\ last' = Call("remove", "-", r, w)
  /\ recency' = OutOfScope

MoveToTopOp(video_id, w) ==
  LET r == move_to_top(Self, video_id) IN
  /\ Apply(r, w)
  /\ last' = Call("move_to_top", "-", r, w)
  /\ recency' = AfterMove(recency, video_id)

GetOp(video_id) ==
  LET r == get(Self, video_id) IN
  /\ Apply(r, "ok")
  /\ last' = Call("get", "-", r, "ok")
  /\ UNCHANGED recency

SetTranscriptOp(video_id, transcript) ==
  LET r == set_transcript(Self, video_id, transcript) IN
  /\ Apply(r, "ok")
  /\ last' = Call("set_transcript", "-", r, "ok")
  /\ UNCHANGED recency

\* The calls as the application makes them.
Add(video, w) == AddOp(video, w) /\ UNCHANGED <<guard, about, threads, listed, side>>
Remove(video_id, w) == RemoveOp(video_id, w) /\ UNCHANGED <<guard, about, threads, listed, side>>
MoveToTop(video_id, w) ==
  MoveToTopOp(video_id, w) /\ UNCHANGED <<guard, about, threads, listed, side>>
Get(video_id) == GetOp(video_id) /\ UNCHANGED <<guard, about, threads, listed, side>>
SetTranscript(video_id, transcript) ==
  SetTranscriptOp(video_id, transcript) /\ UNCHANGED <<guard, about, threads, listed, side>>

\* The widgets as _build_ui leaves them: the generate button enabled, no
\* video in the panels.
Panels == {"title", "summary", "transcript"}
Built == [generate_btn |-> "normal", title |-> 0, summary |-> 0,
          transcript |-> 0]

\* _update_panels(video): the title label, the summary panel and, through
\* _update_transcript_display, the transcript panel show the video.
_update_panels(w, id) ==
  [w EXCEPT !.title = id, !.summary = id, !.transcript = id]

\* _clear_panels.
_clear_panels(w) == [w EXCEPT !.title = 0, !.summary = 0, !.transcript = 0]

\* VideoStore.__init__ with no file at data_path: load() leaves the list
\* empty and rebuilds the index.
Constructed ==
  /\ videos = <<>>
  /\ _index = RebuildIndex(<<>>)
  /\ _transcript_cache = <<>>
  /\ disk = NoFile
  /\ last = [op |-> "init", arg |-> "-", saved |-> FALSE, raised |-> FALSE]
  /\ recency = [pure |-> TRUE, order |-> <<>>]
  /\ guard = [lit |-> "none", strict |-> "none"]
  /\ about = [id |-> 0, was |-> "-"]
  /\ threads = [i \in 1..MaxThreads |-> Idle]
  /\ listed = {}
  /\ _settings = Obj(<<>>)
  /\ settings_file = NoSettingsFile
  /\ summaries = <<>>
  /\ current_video_id = 0
  /\ deleted = {}
  /\ ui = Built

Init == Constructed /\ ret = NoCall

\* Every write succeeds.
Next ==
  \/ \E video \in VideoInputs : Add(video, "ok")
  \/ \E video_id \in Ids : Remove(video_id, "ok")
  \/ \E video_id \in Ids : MoveToTop(video_id, "ok")
  \/ \E video_id \in Ids : Get(video_id)
  \/ \E video_id \in Fetched, transcript \in Payloads :
       SetTranscript(video_id, transcript)

Spec == Init /\ [][Next]_vars

\* The catalog calls alone (add, remove, move_to_top), with the history of
\* the calls that concern KeepAlive.
AddTracked(video) ==
  /\ AddOp(video, "ok")
  /\ guard' = GuardAdd(guard, video.id)
  /\ UNCHANGED <<about, threads, listed, side>>
RemoveTracked(video_id) ==
  /\ RemoveOp(video_id, "ok")
  /\ guard' = GuardRemove(guard, video_id)
  /\ UNCHANGED <<about, threads, listed, side>>
MoveToTopTracked(video_id) ==
  /\ MoveToTopOp(video_id, "ok")
  /\ guard' = GuardMove(guard, video_id, video_id \in IdsOf(videos))
  /\ UNCHANGED <<about, threads, listed, side>>

NextCatalog ==
  \/ \E video \in VideoInputs : AddTracked(video)
  \/ \E video_id \in Ids : RemoveTracked(video_id)
  \/ \E video_id \in Ids : MoveToTopTracked(video_id)

SpecCatalog == Init /\ [][NextCatalog]_vars

\* The same calls with the id of each call on record.  How an id stands: its
\* record is in the catalog with ("cached") or without ("resident") a cached
\* transcript, or it has no record and the cache holds an entry for it
\* ("orphan") or not ("absent").
About(self, id) ==
  IF id \in IdsOf(self.videos)
  THEN IF id \in DOMAIN self._transcript_cache THEN "cached" ELSE "resident"
  ELSE IF id \in DOMAIN self._transcript_cache THEN "orphan" ELSE "absent"
Noted(id) == about' = [id |-> id, was |-> About(Self, id)]

\* The Video objects as first submitted (url "u1").
FirstInputs == {video \in VideoInputs : video.url = "u1"}

AddNoted(video) ==
  AddOp(video, "ok") /\ Noted(video.id) /\ UNCHANGED <<guard, threads, listed, side>>
RemoveNoted(video_id) ==
  RemoveOp(video_id, "ok") /\ Noted(video_id) /\ UNCHANGED <<guard, threads, listed, side>>
MoveToTopNoted(video_id) ==
  MoveToTopOp(video_id, "ok") /\ Noted(video_id) /\ UNCHANGED <<guard, threads, listed, side>>
GetNoted(video_id) ==
  GetOp(video_id) /\ Noted(video_id) /\ UNCHANGED <<guard, threads, listed, side>>
SetTranscriptNoted(video_id, transcript) ==
  SetTranscriptOp(video_id, transcript) /\ Noted(video_id) /\ UNCHANGED <<guard, threads, listed, side>>

NextCache ==
  \/ \E video \in FirstInputs : AddNoted(video)
  \/ \E video_id \in Ids : RemoveNoted(video_id)
  \/ \E video_id \in Ids : MoveToTopNoted(video_id)
  \/ \E video_id \in Ids : GetNoted(video_id)
  \/ \E video_id \in Fetched, transcript \in Payloads :
       SetTranscriptNoted(video_id, transcript)

SpecCache == Init /\ [][NextCache]_vars

\* The outcomes of the write inside save().
Writes == {"ok", "open_fails", "write_fails"}

\* The application is closed and started again: a new VideoStore is
\* constructed from the file at data_path.
Restart ==
  LET r == load(disk) IN
  /\ Apply(r, "ok")
  /\ last' = Call("load", "-", r, "ok")
  /\ recency' = OutOfScope
  /\ UNCHANGED <<guard, about, threads, listed, side>>

\* The file holds the catalog as it is in memory.
InSync == load(disk).videos = [i \in DOMAIN videos |-> from_dict(to_dict(videos[i]))]

\* The outcomes the write of a call can have: at most one failed write is
\* outstanding, a write fails only while the file holds the catalog.
WritesNow == IF InSync THEN Writes ELSE {"ok"}

\* The catalog calls with a write that can fail, set_transcript, and restarts.
NextIO ==
  \/ \E video \in FirstInputs, w \in WritesNow : Add(video, w)
  \/ \E video_id \in Ids, w \in WritesNow : Remove(video_id, w)
  \/ \E video_id \in Ids, w \in WritesNow : MoveToTop(video_id, w)
  \/ \E video_id \in Resubmitted, transcript \in Payloads :
       SetTranscript(video_id, transcript)
  \/ Restart

SpecIO == Init /\ [][NextIO]_vars

\* ------------------------------------------------- summary store, validator
\* The catalog store and the application.
catalog == <<videos, _index, _transcript_cache, disk, last, recency, guard,
             about, threads, listed, current_video_id, deleted, ui>>

\* The identifiers and texts the callers of the summary store pass.
SummaryIds == {<<"a">>, <<"a", LF>>, <<>>, <<"a", "/">>, <<"/", "a">>,
               <<".", ".", "/", "a">>}
SummaryTexts == {<<>>, <<"x">>, <<"x", LF, "x">>, <<"x", CR, LF, "x">>}

SummaryGet(video_id, stat, rd) ==
  LET o == SummaryStore_get(summaries, video_id, stat, rd) IN
  /\ summaries' = o.files
  /\ ret' = Called("get", video_id, o)
  /\ UNCHANGED <<catalog, _settings, settings_file>>

SummarySet(video_id, summary, w, linesep) ==
  LET o == SummaryStore_set(summaries, video_id, summary, w, linesep) IN
  /\ summaries' = o.files
  /\ ret' = Called("set", video_id, o)
  /\ UNCHANGED <<catalog, _settings, settings_file>>

SummaryRemove(video_id, stat) ==
  LET o == SummaryStore_remove(summaries, video_id, stat) IN
  /\ summaries' = o.files
  /\ ret' = Called("remove", video_id, o)
  /\ UNCHANGED <<catalog, _settings, settings_file>>

NextSummary ==
  \/ \E video_id \in SummaryIds, stat \in {"ok", "stat_fails"},
        rd \in {"ok", "read_fails"} : SummaryGet(video_id, stat, rd)
  \/ \E video_id \in SummaryIds, summary \in SummaryTexts, w \in Writes,
        linesep \in Lineseps : SummarySet(video_id, summary, w, linesep)
  \/ \E video_id \in SummaryIds, stat \in {"ok", "stat_fails"} :
       SummaryRemove(video_id, stat)

SpecSummary == Init /\ [][NextSummary]_vars

\* The identifier check applied to one string.
Input(arg) == [NoCall EXCEPT !.op = "input", !.arg = arg]
InitValidator == Constructed /\ ret \in {Input(str) : str \in IdStrings}
Validate ==
  /\ ret.op = "input"
  /\ ret' = [ret EXCEPT !.op = "match", !.value = <<SafeIdMatch(ret.arg)>>]
  /\ UNCHANGED <<catalog, _settings, settings_file, summaries>>
SpecValidator == InitValidator /\ [][Validate]_vars

\* ----------------------------------------------------------- settings store
\* The code points of the credential strings: "A", "Q", "=" (the base64
\* pad), "é", which is outside the base64 alphabet and two bytes in UTF-8,
\* and the lone surrogate U+D800, which UTF-8 cannot encode.
KeyAlphabet == {65, 81, 61, 233, 55296}
ApiKeys == UNION {[1..n -> KeyAlphabet] : n \in 1..MaxKeyLen}
\* The values the callers store under "language", and the defaults they
\* pass to get: "ja", "QQ==", the empty string, a number, None.
OtherValues == {Str(<<106, 97>>), Str(<<81, 81, 61, 61>>), Num(1), Null}
Defaults == {Null, Str(<<>>), Str(<<81, 81, 61, 61>>), Str(<<106, 97>>)}
SettingInputs ==
  {<<"api_key", Str(cps)>> : cps \in ApiKeys}
    \cup {<<"api_key", val>> : val \in {Str(<<>>), Num(1)}}
    \cup {<<"language", val>> : val \in OtherValues}

\* The last call on the settings store: set with its key and value, get with
\* its key and default.
SettingsCalled(op, key, val, raised, value) ==
  [op |-> op, arg |-> [key |-> key, val |-> val], raised |-> raised,
   value |-> value, paths |-> {}]

SettingsSet(key, value, w) ==
  LET o == SettingsStore_set(_settings, settings_file, key, value, w) IN
  /\ _settings' = o.settings
  /\ settings_file' = o.file
  /\ ret' = SettingsCalled("settings.set", key, value, o.raised, <<>>)
  /\ UNCHANGED <<catalog, summaries>>

SettingsGet(key, default) ==
  LET o == SettingsStore_get(_settings, key, default) IN
  /\ ret' = SettingsCalled("settings.get", key, default, o.raised, o.value)
  /\ UNCHANGED <<catalog, summaries, _settings, settings_file>>

\* The application is started again: a new SettingsStore is constructed from
\* the file at settings_path.
SettingsRestart ==
  /\ ~SettingsStore_load_raises(settings_file)
  /\ _settings' = SettingsStore_load(settings_file)
  /\ ret' = SettingsCalled("settings.load", "-", Null, FALSE, <<>>)
  /\ UNCHANGED <<catalog, summaries, settings_file>>

\* Every write succeeds.
NextSettings ==
  \/ \E input \in SettingInputs : SettingsSet(input[1], input[2], "ok")
  \/ \E key \in {"api_key", "language"}, default \in Defaults :
       SettingsGet(key, default)
  \/ SettingsRestart

SpecSettings == Init /\ [][NextSettings]_vars

\* ------------------------------------------------- start on any documents
\* The catalog files the application can find at data_path: none, one that
\* save() wrote, a truncated one, bytes that are not UTF-8, and json of
\* another structure: {}, {"a": 1}, null, 5, "", "x", [1], ["x"], [null],
\* [[]], [{}], [{"id": ...}], a record without added_at (as an older version
\* wrote it), and a record followed by a number.
OldRecord ==
  Obj([id |-> 1, url |-> "u1", title |-> "tu1", thumbnail |-> "thu1"])
CatalogJson ==
  <<Obj(<<>>), Obj([a |-> Num(1)]), Null, Num(5), Str(<<>>), Str(<<120>>),
    Arr(<<Num(1)>>), Arr(<<Str(<<120>>)>>), Arr(<<Null>>), Arr(<<Arr(<<>>)>>),
    Arr(<<Obj(<<>>)>>), Arr(<<Obj([id |-> 1])>>), Arr(<<OldRecord>>),
    Arr(<<OldRecord, Num(1)>>)>>
CatalogFile(file) ==
  \/ file \in {NoFile, [state |-> "torn", doc |-> <<>>],
                [state |-> "undecodable", doc |-> <<>>]}
  \/ \E video \in {v \in VideoInputs : v.id = 1} :
       file = [state |-> "file", doc |-> Document(<<video>>)]
  \/ \E i \in DOMAIN CatalogJson :
       file = [state |-> "json", doc |-> <<CatalogJson[i]>>]
\* The settings files at settings_path: none, truncated, not UTF-8, json
\* that is no object ([1], null, 5, "x"), the empty object, a language
\* only, and a credential as an older version stored it: in plain text.
PlainCredentials == ApiKeys \cup {<<81, 81, 61, 61>>}
SettingsJson ==
  <<Arr(<<Num(1)>>), Null, Num(5), Str(<<120>>), Obj(<<>>),
    Obj([language |-> Str(<<106, 97>>)])>>
SettingsFile(file) ==
  \/ file \in {NoSettingsFile, [state |-> "torn", doc |-> Null],
                [state |-> "undecodable", doc |-> Null]}
  \/ \E i \in DOMAIN SettingsJson :
       file = [state |-> "file", doc |-> SettingsJson[i]]
  \/ \E cps \in PlainCredentials :
       file = [state |-> "file", doc |-> Obj([api_key |-> Str(cps)])]

\* Before the stores are constructed.
NotBuilt == [op |-> "none", arg |-> "-", saved |-> FALSE, raised |-> FALSE]
InitLoad ==
  /\ videos = <<>>
  /\ _index = RebuildIndex(<<>>)
  /\ _transcript_cache = <<>>
  /\ CatalogFile(disk)
  /\ last = NotBuilt
  /\ recency = [pure |-> TRUE, order |-> <<>>]
  /\ guard = [lit |-> "none", strict |-> "none"]
  /\ about = [id |-> 0, was |-> "-"]
  /\ threads = [i \in 1..MaxThreads |-> Idle]
  /\ listed = {}
  /\ _settings = Obj(<<>>)
  /\ SettingsFile(settings_file)
  /\ summaries = <<>>
  /\ current_video_id = 0
  /\ deleted = {}
  /\ ui = Built
  /\ ret = NoCall

\* SettingsStore(settings_path): __init__ sets the empty map and calls
\* load(); when load raises there is no store.
LoadSettings ==
  /\ ret = NoCall
  /\ _settings' = IF SettingsStore_load_raises(settings_file) THEN _settings
                  ELSE SettingsStore_load(settings_file)
  /\ ret' = SettingsCalled("settings.load", "-", Null,
                           SettingsStore_load_raises(settings_file), <<>>)
  /\ UNCHANGED <<catalog, summaries, settings_file>>
\* get on the store that was constructed
LoadedSettingsGet(key, default) ==
  /\ ret.op \in {"settings.load", "settings.get"}
  /\ ~(ret.op = "settings.load" /\ ret.raised)
  /\ SettingsGet(key, default)

\* VideoStore(data_path): __init__ sets the empty list, index and cache and
\* calls load(); when load raises there is no store.
LoadCatalog ==
  /\ last = NotBuilt
  /\ videos' = IF load_raises(disk) THEN videos ELSE load_any(disk).videos
  /\ _index' = IF load_raises(disk) THEN _index ELSE load_any(disk)._index
  /\ last' = [op |-> "load", arg |-> "-", saved |-> FALSE,
              raised |-> load_raises(disk)]
  /\ UNCHANGED <<_transcript_cache, disk, recency, guard, about, threads,
                 listed, side>>
\* get on the store that was constructed
LoadedGet(video_id) ==
  /\ last.op \in {"load", "get"} /\ ~last.raised
  /\ Get(video_id)

NextLoad ==
  \/ LoadSettings
  \/ \E key \in {"api_key", "language"}, default \in Defaults :
       LoadedSettingsGet(key, default)
  \/ LoadCatalog
  \/ \E video_id \in Ids : LoadedGet(video_id)

SpecLoad == InitLoad /\ [][NextLoad]_vars

\* --------------------------------------------- start on a catalog document
\* The catalog documents with the expected structure that are found at
\* data_path: the records of any list of up to MAX_VIDEOS + 1 videos with
\* one of two ids, an id listed more than once included (a file that was
\* edited, merged, or written with a larger MAX_VIDEOS).
ListedIds == {1, 2}
ListedVideos == {video \in FirstInputs : video.id \in ListedIds}
CatalogLists == UNION {[1..n -> ListedVideos] : n \in 0..(MAX_VIDEOS + 1)}
InitLoaded ==
  /\ videos = <<>>
  /\ _index = RebuildIndex(<<>>)
  /\ _transcript_cache = <<>>
  /\ disk \in {[state |-> "file", doc |-> Document(vs)] : vs \in CatalogLists}
  /\ last = NotBuilt
  /\ recency = OutOfScope
  /\ guard = [lit |-> "none", strict |-> "none"]
  /\ about = [id |-> 0, was |-> "-"]
  /\ threads = [i \in 1..MaxThreads |-> Idle]
  /\ listed = {}
  /\ _settings = Obj(<<>>)
  /\ settings_file = NoSettingsFile
  /\ summaries = <<>>
  /\ current_video_id = 0
  /\ deleted = {}
  /\ ui = Built
  /\ ret = NoCall

\* get_transcript(video_id): reads the cache and returns.
GetTranscript(video_id) ==
  /\ ret' = [NoCall EXCEPT !.op = "get_transcript",
                           !.value = <<get_transcript(Self, video_id)>>]
  /\ UNCHANGED <<catalog, _settings, settings_file, summaries>>

\* The calls on the store that was constructed; every write succeeds.
NextLoaded ==
  \/ LoadCatalog
  \/ /\ last # NotBuilt
     /\ \/ \E video \in FirstInputs : Add(video, "ok")
        \/ \E video_id \in Ids : Remove(video_id, "ok")
        \/ \E video_id \in Ids : MoveToTop(video_id, "ok")
        \/ \E video_id \in Resubmitted : Get(video_id)
        \/ \E video_id \in Resubmitted, transcript \in Payloads :
             SetTranscript(video_id, transcript)
        \/ \E video_id \in Resubmitted : GetTranscript(video_id)

SpecLoaded == InitLoaded /\ [][NextLoaded]_vars

\* ------------------------------------------------------------ application
\* threading.Thread(target=..., daemon=True).start(): the new thread takes
\* the lowest free slot.
FreeSlots == {i \in DOMAIN threads : threads[i] = Idle}
Start(th) ==
  /\ FreeSlots # {}
  /\ threads' = [threads EXCEPT
                   ![CHOOSE i \in FreeSlots : \A j \in FreeSlots : i <= j] = th]

\* The text of a model id, as the stores of the application receive it.
IdText(id) == <<"x", ToString(id)>>

\* One step of a thread on the store object; every write succeeds.
StoreStep(op, r) ==
  /\ Apply(r, "ok")
  /\ last' = Call(op, "-", r, "ok")
  /\ recency' = OutOfScope
  /\ UNCHANGED <<guard, about, _settings, settings_file, ret>>

\* video.transcript of the Video a handler holds: the attribute of the first
\* record with that id, None when the store holds no such record.
TranscriptOf(id) ==
  IF id \in IdsOf(videos)
  THEN videos[CHOOSE i \in DOMAIN videos :
                /\ videos[i].id = id
                /\ \A j \in DOMAIN videos : videos[j].id = id => i <= j
             ].transcript
  ELSE None

\* _select_video after its move_to_top: starts a fetch thread (in slot i, or
\* in the lowest free slot when i = 0) if the video has no transcript.
SelectThen(id, i) ==
  IF TranscriptOf(id) = None
  THEN IF i = 0 THEN Start(Thread("fetch", id, "fetching", None))
       ELSE threads' = [threads EXCEPT ![i] = Thread("fetch", id, "fetching", None)]
  ELSE IF i = 0 THEN UNCHANGED threads
       ELSE threads' = [threads EXCEPT ![i] = Idle]

\* _add_video on the UI thread: video_store.get(video_id), and when that
\* finds no record a thread that fetches the title and calls add.
UiAddVideo(id) ==
  /\ StoreStep("get", get(Self, id))
  /\ IF id \in DOMAIN _index THEN UNCHANGED threads
     ELSE Start(Thread("add", id, "title", None))
  /\ deleted' = deleted \ {id}
  /\ UNCHANGED <<listed, summaries, current_video_id, ui>>

\* _refresh_video_list: the list shows the records of the store.
Refresh == listed' = IdsOf(videos')

\* _select_video on the UI thread, for a video the list shows and the store
\* still holds.
UiSelect(id) ==
  /\ id \in listed \cap IdsOf(videos)
  /\ current_video_id' = id
  /\ StoreStep("move_to_top", move_to_top(Self, id))
  /\ SelectThen(id, 0)
  /\ Refresh
  /\ ui' = _update_panels(ui, id)
  /\ UNCHANGED <<summaries, deleted>>

\* _delete_video on the UI thread, confirmed, for a video the list shows and
\* the store still holds: video_store.remove, summary_store.remove, and the
\* selection is cleared when it was this video.
UiDelete(id) ==
  /\ id \in listed \cap IdsOf(videos)
  /\ StoreStep("remove", remove(Self, id))
  /\ summaries' = SummaryStore_remove(summaries, IdText(id), "ok").files
  /\ current_video_id' = IF current_video_id = id THEN 0
                         ELSE current_video_id
  /\ ui' = IF current_video_id = id THEN _clear_panels(ui) ELSE ui
  /\ Refresh
  /\ deleted' = deleted \cup {id}
  /\ UNCHANGED threads

\* The thread of _add_video: get_video_title raises.
BgAddTitleFails(i) ==
  /\ threads[i].kind = "add" /\ threads[i].pc = "title"
  /\ threads' = [threads EXCEPT ![i] = Idle]
  /\ UNCHANGED <<videos, _index, _transcript_cache, disk, last, recency,
                 guard, about, listed, side>>

\* The thread of _add_video inside video_store.add: the membership test and
\* videos.insert(0, video).
BgAddInsert(i) ==
  LET id == threads[i].id
      video == CHOOSE v \in FirstInputs : v.id = id
      present == id \in DOMAIN _index
  IN /\ threads[i].kind = "add" /\ threads[i].pc = "title"
     /\ StoreStep("add",
                  Result(IF present THEN videos ELSE InsertFront(videos, video),
                         _index, _transcript_cache, FALSE))
     /\ threads' = [threads EXCEPT
                      ![i].pc = IF present THEN "posted" ELSE "inserted"]
     /\ UNCHANGED <<listed, summaries, current_video_id, deleted, ui>>

\* ... the truncation to MAX_VIDEOS with its cache pops, and _rebuild_index.
BgAddTruncate(i) ==
  LET over == Len(videos) > MAX_VIDEOS
      removed == IF over THEN SliceFrom(videos, MAX_VIDEOS) ELSE <<>>
      kept == IF over THEN SliceTo(videos, MAX_VIDEOS) ELSE videos
      cache == IF over THEN PopAll(_transcript_cache, removed)
               ELSE _transcript_cache
  IN /\ threads[i].kind = "add" /\ threads[i].pc = "inserted"
     /\ StoreStep("add", Result(kept, RebuildIndex(kept), cache, FALSE))
     /\ threads' = [threads EXCEPT ![i].pc = "indexed"]
     /\ UNCHANGED <<listed, summaries, current_video_id, deleted, ui>>

\* ... and save(); add returns and the thread posts _on_video_added.
BgAddSave(i) ==
  /\ threads[i].kind = "add" /\ threads[i].pc = "indexed"
  /\ StoreStep("add", Result(videos, _index, _transcript_cache, TRUE))
  /\ threads' = [threads EXCEPT ![i].pc = "posted"]
  /\ UNCHANGED <<listed, summaries, current_video_id, deleted, ui>>

\* _on_video_added on the UI thread: _select_video(video).
UiOnVideoAdded(i) ==
  /\ threads[i].kind = "add" /\ threads[i].pc = "posted"
  /\ current_video_id' = threads[i].id
  /\ StoreStep("move_to_top", move_to_top(Self, threads[i].id))
  /\ SelectThen(threads[i].id, i)
  /\ Refresh
  /\ ui' = _update_panels(ui, threads[i].id)
  /\ UNCHANGED <<summaries, deleted>>

\* The thread of _fetch_transcript: get_transcript raises and the handler
\* posts the lambda that calls _on_transcript_error(str(e)).
BgFetchFails(i) ==
  /\ threads[i].kind = "fetch" /\ threads[i].pc = "fetching"
  /\ threads' = [threads EXCEPT ![i].pc = "failed"]
  /\ UNCHANGED <<videos, _index, _transcript_cache, disk, last, recency,
                 guard, about, listed, side>>

\* The thread of _fetch_transcript inside video_store.set_transcript: the
\* assignment to the cache.
BgFetchCache(i, transcript) ==
  /\ threads[i].kind = "fetch" /\ threads[i].pc = "fetching"
  /\ StoreStep("set_transcript",
               Result(videos, _index,
                      DictSet(_transcript_cache, threads[i].id, transcript),
                      FALSE))
  /\ threads' = [threads EXCEPT ![i].pc = "cached", ![i].t = transcript]
  /\ UNCHANGED <<listed, summaries, current_video_id, deleted, ui>>

\* ... and the loop that sets the attribute of the first record with the id;
\* set_transcript returns and the thread posts _on_transcript_fetched.
BgFetchMirror(i) ==
  /\ threads[i].kind = "fetch" /\ threads[i].pc = "cached"
  /\ StoreStep("set_transcript",
               Result(set_transcript(Self, threads[i].id, threads[i].t).videos,
                      _index, _transcript_cache, FALSE))
  /\ threads' = [threads EXCEPT ![i].pc = "posted", ![i].t = None]
  /\ UNCHANGED <<listed, summaries, current_video_id, deleted, ui>>

\* _on_transcript_fetched on the UI thread: video_store.get(video.id), and
\* _update_panels with the record it returns when that record's id is the
\* selected one.
UiOnTranscriptFetched(i) ==
  LET video == get_return(Self, threads[i].id) IN
  /\ threads[i].kind = "fetch" /\ threads[i].pc = "posted"
  /\ StoreStep("get", get(Self, threads[i].id))
  /\ threads' = [threads EXCEPT ![i] = Idle]
  /\ ui' = IF video # <<>> /\ video[1].id = current_video_id
           THEN _update_panels(ui, video[1].id) ELSE ui
  /\ UNCHANGED <<listed, summaries, current_video_id, deleted>>

\* The names an except clause binds: "except Exception as e" unbinds e when
\* the clause ends, and the lambda posted with root.after reads e when the
\* UI thread runs it. The thread that posted it and the UI thread race:
\* e is still bound, or the lambda raises NameError and the handler it
\* names is never called.
Bindings == {"bound", "unbound"}

\* The lambda of the except clause of fetch() on the UI thread:
\* _on_transcript_error(str(e)) writes the error into the transcript panel.
UiOnTranscriptError(i, e) ==
  /\ threads[i].kind = "fetch" /\ threads[i].pc = "failed"
  /\ threads' = [threads EXCEPT ![i] = Idle]
  /\ ui' = IF e = "bound" THEN [ui EXCEPT !.transcript = threads[i].id]
           ELSE ui
  /\ UNCHANGED <<videos, _index, _transcript_cache, disk, last, recency,
                 guard, about, listed, _settings, settings_file, summaries,
                 ret, current_video_id, deleted>>

\* A handler running on the UI thread; the user submits the ids of Fetched.
UiStep ==
  \/ \E id \in Fetched : UiAddVideo(id)
  \/ \E id \in Ids : UiSelect(id)
  \/ \E id \in Ids : UiDelete(id)
  \/ \E i \in DOMAIN threads : UiOnVideoAdded(i)
  \/ \E i \in DOMAIN threads : UiOnTranscriptFetched(i)
  \/ \E i \in DOMAIN threads, e \in Bindings : UiOnTranscriptError(i, e)

\* A step of a background thread.
BgStep ==
  \/ \E i \in DOMAIN threads : BgAddTitleFails(i)
  \/ \E i \in DOMAIN threads : BgAddInsert(i)
  \/ \E i \in DOMAIN threads : BgAddTruncate(i)
  \/ \E i \in DOMAIN threads : BgAddSave(i)
  \/ \E i \in DOMAIN threads : BgFetchFails(i)
  \/ \E i \in DOMAIN threads, transcript \in Payloads :
       BgFetchCache(i, transcript)
  \/ \E i \in DOMAIN threads : BgFetchMirror(i)

NextApp == UiStep \/ BgStep

SpecApp == Init /\ [][NextApp]_vars

\* ------------------------------------------------- application: summaries
\* The summaries summarize_transcript returns.
Summaries == {<<"s">>}
Generating == {i \in DOMAIN threads : threads[i].kind = "summary"}

\* _generate_summary on the UI thread, by the generate button, which Tk
\* runs only while the button is not disabled. It gets the selected video
\* from the store and, when the video has a transcript (an API key is
\* set), disables the button, writes the placeholder into the summary panel
\* and starts the thread.
UiGenerateSummary ==
  LET video == get_return(Self, current_video_id)
      starts == video # <<>> /\ video[1].transcript # None
  IN /\ current_video_id # 0
     /\ ui.generate_btn = "normal"
     /\ StoreStep("get", get(Self, current_video_id))
     /\ IF starts
        THEN Start(Thread("summary", video[1].id, "generating", None))
        ELSE UNCHANGED threads
     /\ ui' = IF starts
              THEN [ui EXCEPT !.generate_btn = "disabled",
                              !.summary = current_video_id]
              ELSE ui
     /\ UNCHANGED <<listed, summaries, current_video_id, deleted>>

\* The thread of _generate_summary: summarize_transcript raises and the
\* handler posts the lambda that calls _on_summary_error(str(e)).
BgGenerateFails(i) ==
  /\ threads[i].kind = "summary" /\ threads[i].pc = "generating"
  /\ threads' = [threads EXCEPT ![i].pc = "failed"]
  /\ UNCHANGED <<videos, _index, _transcript_cache, disk, last, recency,
                 guard, about, listed, side>>

\* The thread of _generate_summary: summarize_transcript returns and
\* summary_store.set(video.id, summary) stores the text; the thread posts
\* _on_summary_generated.
BgGenerateSet(i, summary, linesep) ==
  /\ threads[i].kind = "summary" /\ threads[i].pc = "generating"
  /\ summaries' = SummaryStore_set(summaries, IdText(threads[i].id), summary,
                                   "ok", linesep).files
  /\ threads' = [threads EXCEPT ![i].pc = "posted"]
  /\ UNCHANGED <<videos, _index, _transcript_cache, disk, last, recency,
                 guard, about, listed, _settings, settings_file, ret,
                 current_video_id, deleted, ui>>

\* _on_summary_generated(video) on the UI thread: the button is enabled,
\* _update_panels(video) and _refresh_video_list().
UiOnSummaryGenerated(i) ==
  /\ threads[i].kind = "summary" /\ threads[i].pc = "posted"
  /\ threads' = [threads EXCEPT ![i] = Idle]
  /\ listed' = IdsOf(videos)
  /\ ui' = _update_panels([ui EXCEPT !.generate_btn = "normal"],
                          threads[i].id)
  /\ UNCHANGED <<videos, _index, _transcript_cache, disk, last, recency,
                 guard, about, _settings, settings_file, summaries, ret,
                 current_video_id, deleted>>

\* The lambda of the except clause of generate() on the UI thread:
\* _on_summary_error(str(e)) enables the button and writes the error into
\* the summary panel.
UiOnSummaryError(i, e) ==
  /\ threads[i].kind = "summary" /\ threads[i].pc = "failed"
  /\ threads' = [threads EXCEPT ![i] = Idle]
  /\ ui' = IF e = "bound"
           THEN [ui EXCEPT !.generate_btn = "normal",
                           !.summary = threads[i].id]
           ELSE ui
  /\ UNCHANGED <<videos, _index, _transcript_cache, disk, last, recency,
                 guard, about, listed, _settings, settings_file, summaries,
                 ret, current_video_id, deleted>>

\* The user works on one video, the first of Fetched, and submits it only
\* while no thread of an earlier submission is in flight.
TheVideo == 1
NextAppSummary ==
  \/ /\ \A i \in DOMAIN threads : threads[i] = Idle
     /\ UiAddVideo(TheVideo)
  \/ UiSelect(TheVideo)
  \/ UiDelete(TheVideo)
  \/ UiGenerateSummary
  \/ \E i \in DOMAIN threads : UiOnVideoAdded(i)
  \/ \E i \in DOMAIN threads : UiOnTranscriptFetched(i)
  \/ \E i \in DOMAIN threads : UiOnSummaryGenerated(i)
  \/ \E i \in DOMAIN threads, e \in Bindings : UiOnTranscriptError(i, e)
  \/ \E i \in DOMAIN threads, e \in Bindings : UiOnSummaryError(i, e)
  \/ BgStep
  \/ \E i \in DOMAIN threads : BgGenerateFails(i)
  \/ \E i \in DOMAIN threads, summary \in Summaries, linesep \in Lineseps :
       BgGenerateSet(i, summary, linesep)

SpecAppSummary == Init /\ [][NextAppSummary]_vars

\* ------------------------------------------- catalog and content documents
\* summary_store.set(video.id, summary) for a video, noting the text that
\* was passed.
SummarySetNoted(id, summary, linesep) ==
  LET o == SummaryStore_set(summaries, IdText(id), summary, "ok", linesep) IN
  /\ summaries' = o.files
  /\ ret' = [Called("set", IdText(id), o) EXCEPT !.value = <<summary>>]
  /\ UNCHANGED <<catalog, _settings, settings_file>>
\* set returns None; the text it was passed is noted in its place.
NotedText == ret.value

\* Both stores side by side: content documents are set for the ids of
\* Resubmitted while records are added, removed and moved in the catalog.
NextContent ==
  \/ \E video \in FirstInputs : Add(video, "ok")
  \/ \E video_id \in Ids : Remove(video_id, "ok")
  \/ \E video_id \in Ids : MoveToTop(video_id, "ok")
  \/ \E id \in Resubmitted, summary \in SummaryTexts, linesep \in Lineseps :
       SummarySetNoted(id, summary, linesep)

SpecContent == Init /\ [][NextContent]_vars

\* ------------------------------------------------------------- translations
\* str.split("."): the pieces between the dots, one more than there are
\* dots; a string is the sequence of its characters.
RECURSIVE SplitDots(_)
SplitDots(str) ==
  IF \A i \in DOMAIN str : str[i] # "."
  THEN <<str>>
  ELSE LET dot == CHOOSE i \in DOMAIN str :
                    /\ str[i] = "."
                    /\ \A j \in DOMAIN str : str[j] = "." => i <= j
       IN <<SubSeq(str, 1, dot - 1)>>
            \o SplitDots(SubSeq(str, dot + 1, Len(str)))

\* self._translations.get(language, {}): the tree json.load built from the
\* language's file, a dict with no keys when no file was loaded.
TreeOf(_translations, language) ==
  IF language \in DOMAIN _translations THEN _translations[language]
  ELSE Obj(<<>>)

\* value.get(k) on a dict: None for a missing key, as for a json null.
Member(value, k) == IF k \in DOMAIN value.v THEN value.v[k] ELSE Null

\* The loop of _get_fallback from the i-th key on: None when a key is
\* missing or the value reached is not a dict; after the loop the value
\* when it is a string, None otherwise.
RECURSIVE FallbackFrom(_, _, _)
FallbackFrom(value, keys, i) ==
  IF i > Len(keys)
  THEN IF value.t = "str" THEN value ELSE Null
  ELSE IF value.t # "obj" THEN Null
  ELSE IF Member(value, keys[i]).t = "null" THEN Null
  ELSE FallbackFrom(Member(value, keys[i]), keys, i + 1)

\* I18nManager._get_fallback(key)
_get_fallback(_translations, default_language, key) ==
  FallbackFrom(TreeOf(_translations, default_language), SplitDots(key), 1)

\* The loop of I18nManager.get from the i-th key on and what follows it: a
\* missing key breaks the loop with the fallback value, a value that is not
\* a dict breaks it with None; then None gives the key and any other value
\* is returned when it is a string and gives the key when it is not.
RECURSIVE GetFrom(_, _, _, _, _)
GetFrom(value, keys, i, fallback, key) ==
  IF i > Len(keys)
  THEN IF value.t = "str" THEN value.v ELSE key
  ELSE IF value.t # "obj" THEN key
  ELSE IF Member(value, keys[i]).t = "null"
       THEN IF fallback.t = "null" THEN key ELSE fallback.v
  ELSE GetFrom(Member(value, keys[i]), keys, i + 1, fallback, key)

\* I18nManager.get(key), with no placeholder arguments.
I18nManager_get(_translations, current_language, default_language, key) ==
  GetFrom(TreeOf(_translations, current_language), SplitDots(key), 1,
          _get_fallback(_translations, default_language, key), key)

\* The translation keys: strings over "a", "b" and the dot.
KeyChars == {"a", "b", "."}
TranslationKeys == UNION {[1..n -> KeyChars] : n \in 0..MaxKeyChars}

\* The trees a language file can hold, with the string s at their leaf:
\* {}, {"a": s}, {"a": {"b": s}}, {"a": {"b": {"a": s}}}, {"a": null},
\* {"a": {"b": 1}}, [], and {"a": s, "": {"": s}}.
A == <<"a">>
B == <<"b">>
Trees(s) ==
  <<Obj(<<>>),
    Obj(A :> Str(s)),
    Obj(A :> Obj(B :> Str(s))),
    Obj(A :> Obj(B :> Obj(A :> Str(s)))),
    Obj(A :> Null),
    Obj(A :> Obj(B :> Num(1))),
    Arr(<<>>),
    Obj(A :> Str(s) @@ <<>> :> Obj(<<>> :> Str(s)))>>

\* The manager after __init__ and set_language: default_language "ja",
\* current_language "ja" or, when en.json was loaded, "en"; each of the two
\* files absent or holding one of the trees.
Loaded(lang, s, i) == IF i = 0 THEN <<>> ELSE lang :> Trees(s)[i]
Manager(i, j, cur) ==
  [_translations |-> Loaded("ja", <<"J">>, i) @@ Loaded("en", <<"E">>, j),
   current_language |-> cur, default_language |-> "ja"]

InitI18n ==
  /\ Constructed
  /\ \E i \in 0..Len(Trees(<<>>)), j \in 0..Len(Trees(<<>>)),
        cur \in {"ja", "en"}, key \in TranslationKeys :
       /\ cur = "en" => j # 0
       /\ ret = Input([self |-> Manager(i, j, cur), key |-> key])
I18nGet ==
  /\ ret.op = "input"
  /\ ret' = [ret EXCEPT
               !.op = "get",
               !.value = <<I18nManager_get(ret.arg.self._translations,
                                           ret.arg.self.current_language,
                                           ret.arg.self.default_language,
                                           ret.arg.key)>>]
  /\ UNCHANGED <<catalog, _settings, settings_file, summaries>>
SpecI18n == InitI18n /\ [][I18nGet]_vars

\* ------------------------------------------------------------------ claims
\* The ids of a list, in order.
IdSeq(vs) == [i \in DOMAIN vs |-> vs[i].id]
\* The 1-based position of the record with this id.
Pos(vs, id) == CHOOSE i \in DOMAIN vs : vs[i].id = id
\* An add has cut the tail off at least once: more ids were added than fit.
Evicted == recency.pure /\ Len(recency.order) > MAX_VIDEOS
CacheKeysResident == DOMAIN _transcript_cache \subseteq IdsOf(videos)

\* C1: after every add, remove and move_to_top, from an empty catalog, the
\* catalog holds at most MAX_VIDEOS records.
C1_Bounded == Len(videos) <= MAX_VIDEOS
\* an add into a full catalog has returned
C1_Witness ==
  last.op = "add" /\ last.saved /\ Evicted /\ Len(videos) = MAX_VIDEOS

\* C2: in every reachable state no two records of videos have the same id.
C2_UniqueIds ==
  \A i, j \in DOMAIN videos : videos[i].id = videos[j].id => i = j
\* an add of an id that is present has returned, with several records held
C2_Witness == last.op = "add" /\ ~last.saved /\ Len(videos) >= 2

\* C3: after every call the index matches the sequence: its keys are the ids
\* of the records, and _index[videos[i].id] is the (0-based) position i.
C3_IndexMatches ==
  /\ DOMAIN _index = IdsOf(videos)
  /\ \A i \in DOMAIN videos : _index[videos[i].id] = i - 1
\* a move_to_top has shifted the positions of a full catalog
C3_Witness ==
  last.op = "move_to_top" /\ last.saved /\ Len(videos) = MAX_VIDEOS

\* C4: in every state reachable by add, remove, move_to_top and
\* set_transcript calls with any arguments, every key of the transcript
\* cache is the id of a record in videos.
C4_CacheKeysAlwaysResident == CacheKeysResident
\* What the code does keep (a lemma, not the claim): the cache keys are ids of
\* records initially, and every call keeps them so except a set_transcript
\* for an id that is not in the catalog, which stores an orphaned entry.
CacheKeysResidentUnderContract ==
  /\ CacheKeysResident
  /\ [][(/\ CacheKeysResident
         /\ ~ \E id \in Ids \ IdsOf(videos), t \in Payloads :
                SetTranscript(id, t))
        => CacheKeysResident']_vars
\* C5: after adds of fresh ids and move_to_top calls only, the catalog is the
\* MAX_VIDEOS ids whose latest add or promotion is most recent, most recent
\* first (a promotion being a move_to_top of an id that is in the catalog).
C5_MostRecentFirst ==
  recency.pure => IdSeq(videos) = SliceTo(recency.order, MAX_VIDEOS)
\* a record was promoted after more ids were added than fit
C5_Witness ==
  last.op = "move_to_top" /\ last.saved /\ Evicted /\ Len(videos) = MAX_VIDEOS

\* The ids an add step removes from the catalog.
Dropped == IdsOf(videos) \ IdsOf(videos')
\* a comes before b in the list
Before(vs, a, b) == Pos(vs, a) < Pos(vs, b)
\* The store and its file are left as they were.
StoreUnchanged == UNCHANGED <<videos, _index, _transcript_cache, disk>>

\* C6 as stated: add removes a record only from the last position of a full
\* catalog, and a record x for which move_to_top(x) is called after every add
\* of another id is never evicted, however many adds occur.
C6_KeptAliveByMoveAfterEveryAdd ==
  guard.lit \in Watched => KeepAlive \in IdsOf(videos)
\* C6 as amended: add removes an existing record only if it was at the last
\* position MAX_VIDEOS - 1 of a full catalog, and at most one per call, so
\* never the record at position 0; and a record x for which move_to_top(x) is
\* called after every add of another id, with no other record promoted
\* between that move_to_top(x) and the next add, is never evicted.
C6_EvictsOnlyTail ==
  /\ [][\A video \in VideoInputs : AddTracked(video) =>
          /\ \A x \in Dropped :
               Len(videos) = MAX_VIDEOS /\ videos[MAX_VIDEOS].id = x
          /\ Cardinality(Dropped) <= 1
          /\ (videos # <<>> /\ MAX_VIDEOS >= 2) => videos[1].id \notin Dropped
       ]_vars
  /\ [](guard.strict \in Watched => KeepAlive \in IdsOf(videos))
\* KeepAlive was promoted after every add and is still held after more ids
\* were added than fit
C6_Witness ==
  /\ guard.strict = "kept" /\ last.op = "move_to_top" /\ last.saved
  /\ Evicted /\ videos[1].id = KeepAlive

\* C7: add of a record whose id is present changes nothing: not the order,
\* not any field of any record, not _index, not the cache, not the file, also
\* when the record passed carries other field values.
C7_AddPresentIsNoOp ==
  [][\A video \in VideoInputs :
       (video.id \in IdsOf(videos) /\ Add(video, "ok")) => StoreUnchanged
    ]_vars
\* an add of a present id has returned and the record passed differs in its
\* fields from every record held, with a transcript cached
C7_Witness ==
  /\ last.op = "add" /\ ~last.saved /\ Len(videos) >= 2
  /\ \A i \in DOMAIN videos : videos[i].url # last.arg
  /\ DOMAIN _transcript_cache # {}

\* C8: add of a record whose id is absent puts that record at position 0;
\* every record held before is one position further down, in the same order,
\* if that position is below MAX_VIDEOS, and is removed otherwise.
C8_AddInsertsAtFront ==
  [][\A video \in VideoInputs :
       (video.id \notin IdsOf(videos) /\ Add(video, "ok")) =>
         /\ videos'[1] = video
         /\ Len(videos') = IF Len(videos) < MAX_VIDEOS THEN Len(videos) + 1
                           ELSE MAX_VIDEOS
         /\ \A i \in DOMAIN videos :
              IF i + 1 <= MAX_VIDEOS THEN videos'[i + 1] = videos[i]
              ELSE videos[i].id \notin IdsOf(videos')
    ]_vars
\* an add of an absent id into a full catalog has returned: its record is
\* at the front and the tail was cut off
C8_Witness ==
  /\ last.op = "add" /\ last.saved /\ Evicted
  /\ last.arg = "u2" /\ videos[1].url = "u2"

\* C9: move_to_top of a record at a position p > 0 puts it at position 0,
\* keeps the other records in their order, keeps the ids, the length, every
\* record's fields and the cache, and writes the new order to the file.
C9_MoveToTopReorders ==
  [][\A id \in IdsOf(videos) :
       (Pos(videos, id) > 1 /\ MoveToTop(id, "ok")) =>
         /\ videos'[1] = videos[Pos(videos, id)]
         /\ Len(videos') = Len(videos)
         /\ IdsOf(videos') = IdsOf(videos)
         /\ \A a, b \in IdsOf(videos) \ {id} :
              Before(videos', a, b) <=> Before(videos, a, b)
         /\ \A k \in IdsOf(videos) :
              videos'[Pos(videos', k)] = videos[Pos(videos, k)]
         /\ _transcript_cache' = _transcript_cache
         /\ disk' = [state |-> "file", doc |-> Document(videos')]
         /\ disk' # disk
    ]_vars
\* a move_to_top has reordered a full catalog that holds a cached transcript
C9_Witness ==
  /\ last.op = "move_to_top" /\ last.saved /\ Len(videos) = MAX_VIDEOS
  /\ DOMAIN _transcript_cache # {} /\ disk.doc = Document(videos)

\* C10: move_to_top of an id at position 0, or of an id that is not in the
\* catalog, changes nothing: not videos, _index, the cache or the file.
C10_MoveToTopNoOp ==
  [][\A id \in Ids :
       ((id \notin IdsOf(videos) \/ videos[1].id = id) /\ MoveToTop(id, "ok"))
         => StoreUnchanged
    ]_vars
\* a move_to_top that moved nothing has returned on a catalog of several
\* records with a cached transcript
C10_Witness ==
  /\ last.op = "move_to_top" /\ ~last.saved /\ Len(videos) >= 2
  /\ DOMAIN _transcript_cache # {}

\* The store object after the step.
SelfNext == [videos |-> videos', _index |-> _index',
             _transcript_cache |-> _transcript_cache']

\* C11: remove of an id that is present deletes exactly its record, keeps
\* the other records and their order, drops the cache entry of the id, keeps
\* the cache entries of the other ids, and writes the result to the file.
C11_RemovePresent ==
  [][\A id \in IdsOf(videos) : RemoveNoted(id) =>
       /\ Len(videos') = Len(videos) - 1
       /\ IdsOf(videos') = IdsOf(videos) \ {id}
       /\ \A k \in IdsOf(videos') :
            videos'[Pos(videos', k)] = videos[Pos(videos, k)]
       /\ \A a, b \in IdsOf(videos') :
            Before(videos', a, b) <=> Before(videos, a, b)
       /\ DOMAIN _transcript_cache' = DOMAIN _transcript_cache \ {id}
       /\ \A k \in DOMAIN _transcript_cache' :
            _transcript_cache'[k] = _transcript_cache[k]
       /\ disk' = [state |-> "file", doc |-> Document(videos')]
    ]_vars
\* a remove of a record with a cached transcript has returned; other records
\* and another cached transcript remain
C11_Witness ==
  /\ last.op = "remove" /\ about.was = "cached"
  /\ about.id \notin IdsOf(videos)
  /\ Len(videos) >= 2 /\ DOMAIN _transcript_cache # {}

\* C12: remove of an id that is absent from the catalog changes nothing (not
\* videos, _index, the cache or the file) and performs no write.
C12_RemoveAbsentIsNoOp ==
  [][\A id \in Ids \ IdsOf(videos) : Remove(id, "ok") =>
       StoreUnchanged /\ ~last'.saved
    ]_vars

\* C13: when a record leaves the catalog (by remove or by eviction in add),
\* get_transcript of its id returns None after that call; and once
\* get_transcript of an id returns None it keeps returning None, also when the
\* id is added again, until set_transcript is called with that id.
C13_GoneUntilSet ==
  [][\A id \in Ids :
       /\ (id \in IdsOf(videos) /\ id \notin IdsOf(videos'))
            => get_transcript(SelfNext, id) = None
       /\ (/\ get_transcript(Self, id) = None
           /\ ~ \E t \in Payloads : SetTranscriptNoted(id, t))
            => get_transcript(SelfNext, id) = None
    ]_vars
\* a record with a cached transcript was removed, and get_transcript of its
\* id returns None
C13_Witness ==
  /\ last.op = "remove" /\ about.was = "cached"
  /\ get_transcript(Self, about.id) = None

\* C14: for every id in the catalog, get returns the record of that id with
\* its transcript equal to get_transcript(id); set_transcript(id, p) makes
\* get_transcript(id) equal p, and no other call changes it while the record
\* stays in the catalog, so a later get(id) returns a record with transcript p.
C14_GetAttachesCache ==
  /\ [](\A id \in IdsOf(videos) :
          LET r == get_return(Self, id) IN
          /\ Len(r) = 1
          /\ r[1].id = id
          /\ r[1].transcript = get_transcript(Self, id)
          /\ to_dict(r[1]) = to_dict(videos[Pos(videos, id)]))
  /\ [][\A id \in Ids :
          /\ \A t \in Payloads : SetTranscriptNoted(id, t) =>
               get_transcript(SelfNext, id) = t
          /\ (/\ id \in IdsOf(videos) /\ id \in IdsOf(videos')
              /\ ~ \E t \in Payloads : SetTranscriptNoted(id, t))
               => get_transcript(SelfNext, id) = get_transcript(Self, id)
       ]_vars
\* a get of a record with a cached transcript has returned that record with
\* the transcript attached
C14_Witness ==
  /\ last.op = "get" /\ about.was = "cached"
  /\ videos[Pos(videos, about.id)].transcript = "p1"
  /\ get_return(Self, about.id)[1].transcript = "p1"

\* C15: set_transcript for an id with no record in the catalog has no effect:
\* the cache, videos and _index are unchanged and get_transcript of the id
\* still returns None.
C15_SetTranscriptAbsentNoEffect ==
  [][\A id \in Fetched \ IdsOf(videos), t \in Payloads :
       (get_transcript(Self, id) = None /\ SetTranscript(id, t)) =>
         /\ UNCHANGED <<_transcript_cache, videos, _index>>
         /\ get_transcript(SelfNext, id) = None
    ]_vars

\* The records as a new VideoStore holds them: no transcript attached.
NoTranscripts(vs) == [i \in DOMAIN vs |-> [vs[i] EXCEPT !.transcript = None]]
Mutating == {"add", "remove", "move_to_top"}
\* What a new VideoStore constructed from the file holds is the current
\* catalog, in order, without transcripts, with a matching index and an
\* empty cache.
ReloadsAsIs ==
  /\ load(disk).videos = NoTranscripts(videos)
  /\ load(disk)._index = _index
  /\ load(disk)._transcript_cache = <<>>
\* The document holds exactly the five persisted fields of each record, and
\* set_transcript leaves the file alone.
TranscriptsNotPersisted ==
  /\ [](\A i \in DOMAIN disk.doc :
          DOMAIN disk.doc[i] = {"id", "url", "title", "thumbnail", "added_at"})
  /\ [][\A id \in Resubmitted, t \in Payloads :
          SetTranscript(id, t) => disk' = disk]_vars

\* C18 as stated: after every add, remove or move_to_top that returned
\* without raising, a new VideoStore constructed from the file holds the
\* same records in the same order and an empty cache; transcripts are never
\* in the document and set_transcript performs no write.
C18_ReloadAfterSuccess ==
  /\ []((last.op \in Mutating /\ ~last.raised) => ReloadsAsIs)
  /\ TranscriptsNotPersisted
\* C18, amended: the same after every add, remove or move_to_top that wrote
\* the document and whose write succeeded.
C18_ReloadAfterWrite ==
  /\ []((last.op \in Mutating /\ last.saved /\ ~last.raised) => ReloadsAsIs)
  /\ TranscriptsNotPersisted
\* a call has written a catalog of two or more records of which one carries
\* a transcript in memory, so that the reloaded records differ from the
\* records in memory by the transcript only
C18_Witness ==
  /\ last.op \in Mutating /\ last.saved /\ ~last.raised
  /\ Len(videos) >= 2
  /\ \E i \in DOMAIN videos : videos[i].transcript # None
  /\ DOMAIN _transcript_cache # {}
  /\ load(disk).videos # videos
  /\ load(disk).videos = NoTranscripts(videos)

\* A step of add, remove or move_to_top that reaches save() with outcome w.
Writing(w) ==
  /\ \/ \E video \in FirstInputs : Add(video, w)
     \/ \E id \in Ids : Remove(id, w)
     \/ \E id \in Ids : MoveToTop(id, w)
  /\ last'.saved

\* C19: when the write inside add, remove or move_to_top fails, the call
\* raises, the object holds the result of the call with a matching index,
\* and the file is the one from before the call.
C19_FailedWriteKeepsFile ==
  [][\A w \in Writes \ {"ok"} :
       Writing(w) => /\ last'.raised
                     /\ _index' = RebuildIndex(videos')
                     /\ Len(videos') <= MAX_VIDEOS
                     /\ disk' = disk
    ]_vars

\* C20: a write either succeeds and the file holds the complete new
\* document, or fails and the file holds its complete prior contents; the
\* file is never left truncated.
C20_WriteAllOrNothing ==
  /\ [](disk.state # "torn")
  /\ [][\A w \in Writes :
          Writing(w) =>
            IF w = "ok" THEN disk' = [state |-> "file", doc |-> Document(videos')]
            ELSE disk' = disk
       ]_vars

\* C16: the application calls set_transcript(id, ...) only while id is in the
\* catalog: when a fetch thread started by _select_video reaches
\* video_store.set_transcript, the record of its video is still present.
C16_SetTranscriptOnlyWhilePresent ==
  [][\A i \in DOMAIN threads, transcript \in Payloads :
       BgFetchCache(i, transcript) => threads[i].id \in IdsOf(videos)
    ]_vars

\* C17: the application serializes the access to the store: no handler on
\* the UI thread runs a store operation while a background thread is inside
\* add or set_transcript, and no two background threads are inside one.
InStore == {i \in DOMAIN threads : threads[i].pc \in {"inserted", "indexed", "cached"}}
C17_StoreAccessSerialized ==
  /\ [](Cardinality(InStore) <= 1)
  /\ [][UiStep => InStore = {}]_vars

\* C22: set(id, text) followed by get(id) returns exactly text, for every
\* identifier the validator accepts and every text, whatever was stored
\* under the id before.
C22_SummaryRoundTrip ==
  [][\A id \in SummaryIds, text \in SummaryTexts, linesep \in Lineseps :
       (SafeIdMatch(id) /\ SummarySet(id, text, "ok", linesep))
         => SummaryStore_get(summaries', id, "ok", "ok").value = <<text>>
    ]_vars

\* C23: get never raises; it returns None and accesses no file for an
\* identifier the validator rejects, and returns None when the read fails.
C23_SummaryGetNeverRaises ==
  [][\A id \in SummaryIds, stat \in {"ok", "stat_fails"},
        rd \in {"ok", "read_fails"} :
       SummaryGet(id, stat, rd)
         => /\ ~ret'.raised
            /\ ~SafeIdMatch(id) => (ret'.value = <<>> /\ ret'.paths = {})
            /\ rd = "read_fails" => ret'.value = <<>>
    ]_vars

\* A path directly inside summaries_dir.
DirectChild(path) ==
  /\ Len(path) = Len(SummariesDir) + 1
  /\ SubSeq(path, 1, Len(SummariesDir)) = SummariesDir
  /\ path[Len(path)] \notin {<<".">>, <<".", ".">>}
  /\ \A i \in DOMAIN path[Len(path)] : path[Len(path)][i] # "/"

\* C24: set and remove with an identifier the validator rejects raise and
\* leave every file as it was, accessing none; every path the store accesses
\* and every file there is lies directly inside summaries_dir and is named
\* <identifier>.md.
C24_InvalidIdTouchesNothing ==
  /\ [](\A path \in ret.paths \cup DOMAIN summaries : DirectChild(path))
  /\ [](ret.op \in {"get", "set", "remove"}
          => \A path \in ret.paths :
               path = SummariesDir \o <<ret.arg \o <<".", "m", "d">> >>)
  /\ [][\A id \in SummaryIds :
          (/\ ~SafeIdMatch(id)
           /\ \/ \E stat \in {"ok", "stat_fails"} : SummaryRemove(id, stat)
              \/ \E text \in SummaryTexts, w \in Writes, linesep \in Lineseps :
                   SummarySet(id, text, w, linesep))
            => ret'.raised /\ summaries' = summaries /\ ret'.paths = {}
       ]_vars
\* a set with an identifier that holds a path separator has raised while the
\* directory holds a file
C24_Witness ==
  /\ ret.op = "set" /\ ret.raised /\ ret.paths = {}
  /\ \E i \in DOMAIN ret.arg : ret.arg[i] = "/"
  /\ DOMAIN summaries # {}

\* C25: the identifier check accepts a string if and only if it is
\* non-empty and each of its characters is a letter, a digit, a hyphen or an
\* underscore.
C25_ValidatorExact ==
  ret.op = "match"
    => (ret.value[1] <=> (/\ ret.arg # <<>>
                          /\ \A i \in DOMAIN ret.arg : SafeChar(ret.arg[i])))

\* The last call was a set of key that returned.
SetReturned(key) ==
  ret.op = "settings.set" /\ ~ret.raised /\ ret.arg.key = key
\* get(key) on the object, and on a new SettingsStore loaded from the file.
GetNow(key) == SettingsStore_get(_settings, key, Null)
GetReloaded(key) ==
  SettingsStore_get(SettingsStore_load(settings_file), key, Null)

\* C26: after set("api_key", s) for a non-empty string s, get("api_key")
\* returns s, on the same object and on a new one loaded from the file, and
\* the value held in memory and in the file under api_key is not s.
C26_CredentialRoundTrip ==
  (SetReturned("api_key") /\ ret.arg.val.t = "str" /\ ret.arg.val.v # <<>>)
    => /\ GetNow("api_key") = [raised |-> FALSE, value |-> <<ret.arg.val>>]
       /\ GetReloaded("api_key") = GetNow("api_key")
       /\ _settings.v["api_key"] # ret.arg.val
       /\ settings_file.doc.v["api_key"] # ret.arg.val
\* a credential with a character outside ASCII has been set over an earlier
\* one, next to another key
C26_Witness ==
  /\ SetReturned("api_key") /\ ret.arg.val.t = "str"
  /\ \E i \in DOMAIN ret.arg.val.v : ret.arg.val.v[i] > 127
  /\ Len(ret.arg.val.v) = MaxKeyLen
  /\ "language" \in DOMAIN _settings.v
  /\ GetNow("api_key").value = <<ret.arg.val>>

\* C27: get(key, default) returns default whenever key is not in the map,
\* for every key and every default.
C27_GetDefault ==
  [][\A key \in {"api_key", "language"}, default \in Defaults :
       (/\ _settings.t = "obj" /\ key \notin DOMAIN _settings.v
        /\ SettingsGet(key, default))
         => ret'.value = <<default>>
    ]_vars

\* C29: after every set that returns, a new SettingsStore loaded from the
\* file holds the map of the object and returns the same get(k) for every
\* key; the set changed the value of no other key; a key other than api_key
\* reads back the value that was set.
C29_SetIsDurable ==
  /\ [](\A key \in {"api_key", "language"} :
          SetReturned(key)
            => /\ SettingsStore_load(settings_file) = _settings
               /\ \A k \in DOMAIN _settings.v : GetReloaded(k) = GetNow(k)
               /\ key # "api_key" => GetNow(key).value = <<ret.arg.val>>)
  /\ [][(ret'.op = "settings.set" /\ ~ret'.raised)
          => /\ DOMAIN _settings'.v = DOMAIN _settings.v \cup {ret'.arg.key}
             /\ \A k \in DOMAIN _settings.v \ {ret'.arg.key} :
                  _settings'.v[k] = _settings.v[k]
       ]_vars
\* a set of language has returned while a credential is stored
C29_Witness ==
  /\ SetReturned("language") /\ ret.arg.val = Str(<<81, 81, 61, 61>>)
  /\ "api_key" \in DOMAIN _settings.v
  /\ _settings.v["api_key"].t = "str" /\ _settings.v["api_key"].v # <<>>
  /\ settings_file.state = "file"

\* The catalog document has the expected structure: a list of objects each
\* holding id, url, title and thumbnail.
ExpectedCatalog(file) ==
  \/ file.state = "file"
  \/ /\ file.state = "json" /\ file.doc[1].t = "arr"
     /\ \A i \in DOMAIN file.doc[1].v : ElementFails(file.doc[1].v[i]) = "none"
\* The settings document has the expected structure: a key-value object.
ExpectedSettings(file) == file.state = "file" /\ file.doc.t = "obj"

\* C21: constructing SettingsStore or VideoStore does not raise, whatever
\* the backing document holds; when the document does not parse or has not
\* the expected structure the store is empty afterwards, and get on the
\* store does not raise.
C21_LoadNeverRaises ==
  /\ ret.op = "settings.load"
       => /\ ~ret.raised
          /\ ~ExpectedSettings(settings_file) => _settings = Obj(<<>>)
  /\ ret.op = "settings.get" => ~ret.raised
  /\ last.op = "load"
       => /\ ~last.raised
          /\ ~ExpectedCatalog(disk) => (videos = <<>> /\ _index = <<>>)
  /\ last.op = "get" => ~last.raised

\* C28: get("api_key") returns the credential of the settings document as
\* it is there, for every credential an older version stored in plain text.
C28_PlainCredentialUnchanged ==
  (/\ ret.op = "settings.get" /\ ret.arg.key = "api_key"
   /\ ExpectedSettings(settings_file)
   /\ "api_key" \in DOMAIN settings_file.doc.v)
    => ret.value = <<settings_file.doc.v["api_key"]>>

\* The content document of a video.
SummaryPath(id) == SummariesDir \o <<IdText(id) \o <<".", "m", "d">> >>
Quiescent == \A i \in DOMAIN threads : threads[i] = Idle

\* C30: when the deletion of a video was confirmed and every background
\* task has finished, the catalog holds no record and the summaries
\* directory no content document for its id.
C30_DeletedStaysDeleted ==
  \A id \in deleted :
    Quiescent => /\ id \notin IdsOf(videos)
                 /\ SummaryPath(id) \notin DOMAIN summaries

\* C31: once the store is constructed from a catalog document of the
\* expected structure, and after every later add, remove and move_to_top,
\* the catalog holds at most MAX_VIDEOS records, no id twice, and the index
\* maps every id to the position of its record.
C31_LoadedInvariants ==
  last # NotBuilt
    => /\ Len(videos) <= MAX_VIDEOS
       /\ \A i, j \in DOMAIN videos : videos[i].id = videos[j].id => i = j
       /\ DOMAIN _index = IdsOf(videos)
       /\ \A i \in DOMAIN videos : _index[videos[i].id] = i - 1

\* C32: on a constructed store, an id comes into the catalog only by an add
\* of a record with that id; it leaves the catalog only by remove of that id
\* or by an add of another id into a catalog that holds MAX_VIDEOS records
\* or more; move_to_top, get, set_transcript and get_transcript leave the
\* set of ids of the catalog as it is.
C32_MembershipLifecycle ==
  [][last # NotBuilt
       => /\ \A id \in IdsOf(videos') \ IdsOf(videos) :
               \E video \in FirstInputs : video.id = id /\ Add(video, "ok")
          /\ \A id \in IdsOf(videos) \ IdsOf(videos') :
               \/ Remove(id, "ok")
               \/ /\ Len(videos) >= MAX_VIDEOS
                  /\ \E video \in FirstInputs :
                       video.id # id /\ Add(video, "ok")
          /\ (\/ \E id \in Ids : MoveToTop(id, "ok")
              \/ \E id \in Resubmitted : Get(id)
              \/ \E id \in Resubmitted, transcript \in Payloads :
                   SetTranscript(id, transcript)
              \/ \E id \in Resubmitted : GetTranscript(id))
               => IdsOf(videos') = IdsOf(videos)
    ]_vars
\* a move_to_top has moved a record of a full catalog that holds a record
\* added after the load, while a transcript is cached
C32_Witness ==
  /\ last.op = "move_to_top" /\ last.saved
  /\ Len(videos) = MAX_VIDEOS
  /\ IdsOf(videos) \ ListedIds # {}
  /\ _transcript_cache # <<>>

\* C33: add, remove and move_to_top of the catalog leave every content
\* document as it is; whatever the catalog does after set(id, text), the id
\* being evicted and added again included, get(id) returns text.
C33_ContentOutlivesRecord ==
  /\ [][(\/ \E video \in FirstInputs : Add(video, "ok")
         \/ \E video_id \in Ids : Remove(video_id, "ok")
                                  \/ MoveToTop(video_id, "ok"))
          => summaries' = summaries]_vars
  /\ [](ret.op = "set" /\ ~ret.raised
          => SummaryStore_get(summaries, ret.arg, "ok", "ok").value = NotedText)

\* get(id) as the caller sees it, when the file system answers.
GetOf(files, id) == SummaryStore_get(files, id, "ok", "ok").value
Accepted == {id \in SummaryIds : SafeIdMatch(id)}

\* C34: set(id, text) and remove(id) leave get(id2) as it was for every
\* other accepted identifier id2; two accepted identifiers have different
\* files; remove(id) returns, get(id) is None after it, and when id had no
\* document nothing has changed.
C34_OnlyOwnDocument ==
  /\ [](\A id, id2 \in Accepted :
          id # id2 => _get_file_path(id) # _get_file_path(id2))
  /\ [][\A id \in Accepted :
          /\ (\/ \E text \in SummaryTexts, w \in Writes, linesep \in Lineseps :
                   SummarySet(id, text, w, linesep)
              \/ \E stat \in {"ok", "stat_fails"} : SummaryRemove(id, stat))
               => \A id2 \in Accepted \ {id} :
                    GetOf(summaries', id2) = GetOf(summaries, id2)
          /\ (\E stat \in {"ok", "stat_fails"} : SummaryRemove(id, stat))
               => /\ ~ret'.raised
                  /\ GetOf(summaries', id) = <<>>
                  /\ GetOf(summaries, id) = <<>> => summaries' = summaries
       ]_vars

\* C35: in the application no two records of the catalog have the same
\* id, and the video_store.get(id) of _add_video does not raise and returns
\* None or a record with that id, whatever the background add threads have
\* done so far.
C35_AddThreadsKeepCatalog ==
  /\ [](\A i, j \in DOMAIN videos : videos[i].id = videos[j].id => i = j)
  /\ [][\A id \in Fetched :
          UiAddVideo(id)
            => \/ id \notin DOMAIN _index
               \/ /\ _index[id] + 1 \in DOMAIN videos
                  /\ get_return(Self, id)[1].id = id
       ]_vars

\* C36: whenever the title, the summary or the transcript panel shows a
\* video, that video is the selected one; a completion of a fetch, a fetch
\* error, a generation or a generation error for a video never changes the
\* panels once another video is selected or the video is deleted.
C36_PanelsShowSelected ==
  \A p \in Panels : ui[p] # 0 => ui[p] = current_video_id

\* C37: every summary generation that started ends with one completion
\* handler on the UI thread and the generate button enabled again: once no
\* generation thread and no completion of one is left, the button is
\* enabled.
C37_GenerationReportsBack ==
  Generating = {} => ui.generate_btn = "normal"

\* The string at a dotted key of a tree: the value reached by following the
\* key's parts through nested objects, when all parts are there and a
\* string is reached.
RECURSIVE StringAt(_, _)
StringAt(tree, parts) ==
  IF parts = <<>>
  THEN IF tree.t = "str" THEN <<tree.v>> ELSE <<>>
  ELSE IF tree.t = "obj" /\ Head(parts) \in DOMAIN tree.v
  THEN StringAt(tree.v[Head(parts)], Tail(parts))
  ELSE <<>>

\* C38: get(key) returns the string at the dotted key in the current
\* language when there is one, otherwise the string at that key in the
\* default language when there is one, otherwise the key, whatever the
\* shape of the trees.
C38_GetFallsBack ==
  ret.op = "get" =>
    LET self == ret.arg.self
        parts == SplitDots(ret.arg.key)
        here == StringAt(TreeOf(self._translations, self.current_language),
                         parts)
        there == StringAt(TreeOf(self._translations, self.default_language),
                          parts)
    IN ret.value = IF here # <<>> THEN here
                   ELSE IF there # <<>> THEN there
                   ELSE <<ret.arg.key>>

====
